---- MODULE Spec2Model ----
(***************************************************************************)
(* Guest proxy agent: the request path of the loopback listener            *)
(* (proxy_agent/src/proxy/proxy_server.rs) and the authorization engine    *)
(* (proxy_agent/src/proxy/authorization_rules.rs).                         *)
(*                                                                         *)
(* The specifications of the module:                                       *)
(*   SpecAuth  the pure function AuthorizationRules::is_allowed, applied   *)
(*             to rules, URLs and claims drawn from bounded sets;          *)
(*   Spec      one client request after the other travelling through the   *)
(*             body-limit layer, handle_request,                           *)
(*             handle_request_with_signature and forward_response;         *)
(*   SpecConn  tasks calling increase_connection_count concurrently;       *)
(*   SpecIp    redirector::ip_to_string and redirector::string_to_ip;      *)
(*   SpecListener  proxy_server::start: the bind with its retries, the     *)
(*             accept loop, the cancellation token and the spawned tasks   *)
(*             (SpecListenerFair adds the scheduling of the runtime);      *)
(*   SpecState the wrappers of shared_state.rs called one after the other; *)
(*   SpecUser  tasks calling proxy::get_user concurrently;                 *)
(*   SpecItem  AuthorizationRules::from_authorization_item applied to      *)
(*             authorization items drawn from bounded sets;                *)
(*   SpecLock  tasks calling concurrently the functions that take the      *)
(*             mutex of the shared state, of the BPF object or of a        *)
(*             connection's stream.                                        *)
(*                                                                         *)
(* Rust's Option<T> is a sequence of length 0 (None) or 1 (Some(x)).       *)
(* A string that the code inspects character by character (a URL path) is  *)
(* a sequence of one-character strings; other strings are atoms with an    *)
(* explicit to_lowercase table.                                            *)
(***************************************************************************)
EXTENDS Integers, Sequences, FiniteSets, TLC

VARIABLES
    \* ---- SpecAuth: the arguments and the result of one is_allowed call
    authRules,          \* self: AuthorizationRules
    authUrl,            \* request_url
    authClaims,         \* claims
    authResult,         \* <<>> before the call, <<b>> after it returned b
    authLog,            \* the Connection::write_information lines of the call
    \* ---- Spec: the process
    windows,            \* cfg(windows): fixed when the agent is built
    key,                \* SharedState.key
    connection_count,   \* SharedState.connection_count
    accepted,           \* connections accepted by the listener so far
    \* ---- Spec: the request in flight
    pc,                 \* where the task serving the connection stands
    request,            \* the client request as hyper parsed it
    audit,              \* what the kernel's audit map holds for the source port
    socket_audit,       \* Windows: the redirect context attached to the socket
    connection,         \* ConnectionContext
    entry,              \* the AuditEntry found for the source port
    authz,              \* what proxy_authorizer::authorize evaluated
    proxy_request,      \* the request being built for the host endpoint
    key_value,          \* local `key` of handle_request_with_signature
    upstream,           \* requests handed to hyper_client::send_request
    response,           \* the response returned to the client
    summary,            \* ProxySummary given to add_one_connection_summary
    notified,           \* key_keeper_wrapper::notify was called
    log,                \* lines written to the connection log
    layer_limit,        \* the ceiling of the RequestBodyLimitLayer chosen
    host_response,      \* what hyper_client::send_request returned
    \* ---- SpecConn: tasks calling increase_connection_count concurrently
    handlers,           \* per task: where it stands and the id it was given
    mutex,              \* the task that holds the lock of the shared state
    \* ---- SpecIp: ip_to_string and string_to_ip
    ipIn,               \* the u32 given to ip_to_string
    ipStr,              \* the string it returned
    ipOut,              \* what string_to_ip returned for that string
    \* ---- SpecListener: proxy_server::start
    lpc,                \* where start stands
    retry_i,            \* `i` of the for loop of start_listener_with_retry
    bind_results,       \* what each TcpListener::bind so far returned
    listener,           \* what start_listener_with_retry returned
    cancelled,          \* the cancellation token is cancelled
    tasks,              \* the tasks spawned by accept_one_request
    accept_errors,      \* the listener.accept() calls that returned Err
    \* ---- SpecState: the fields of SharedState next to key and connection_count
    current_secure_channel_state,
    wireserver_rule_id,
    imds_rule_id,
    key_keeper_shutdown,
    key_keeper_status_message,
    proxy_listner_shutdown,
    proxy_listner_status_message,
    ret,                \* the last wrapper called, its argument and what it returned
    \* ---- SpecUser: tasks calling get_user
    users,              \* the identity cache: logon id -> User
    callers,            \* per task: where its get_user call stands
    \* ---- SpecItem: AuthorizationRules::from_authorization_item
    itemIn,             \* authorization_item
    itemOut,            \* the AuthorizationRules returned
    \* ---- SpecLock: tasks calling the functions that take a mutex
    locks,              \* per mutex: the task that holds it
    workers,            \* per task: the call it makes and where the call stands
    calls               \* the number of calls begun

authVars == <<authRules, authUrl, authClaims, authResult, authLog>>

processVars == <<windows, key, connection_count, accepted>>

requestVars == <<pc, request, audit, socket_audit, connection, entry, authz, proxy_request,
                 key_value, upstream, response, summary, notified, log,
                 layer_limit, host_response>>

connVars == <<handlers, mutex>>

ipVars == <<ipIn, ipStr, ipOut>>

listenerVars == <<lpc, retry_i, bind_results, listener, cancelled, tasks, accept_errors>>

stateVars == <<current_secure_channel_state, wireserver_rule_id, imds_rule_id,
               key_keeper_shutdown, key_keeper_status_message,
               proxy_listner_shutdown, proxy_listner_status_message, ret>>

userVars == <<users, callers>>

itemVars == <<itemIn, itemOut>>

lockVars == <<locks, workers, calls>>

vars == <<authVars, lockVars, itemVars, processVars, requestVars, connVars, ipVars,
          listenerVars, stateVars, userVars>>

None == <<>>

Some(x) == <<x>>

IsSome(o) == Len(o) = 1

Unwrap(o) == o[1]

(***************************************************************************)
(* Strings                                                                 *)
(***************************************************************************)

\* str::to_lowercase on the atoms the model uses.
ToLower(s) ==
    CASE s = "Test" -> "test"
      [] s \in {"Allow", "ALLOW"} -> "allow"
      [] s = "Deny" -> "deny"
      [] s = "Enforce" -> "enforce"
      [] s = "AUDIT" -> "audit"
      [] s = "Disabled" -> "disabled"
      [] s = "GRP" -> "grp"
      [] s = "T" -> "t"
      [] s = "O" -> "o"
      [] s = "K" -> "k"
      [] s = "V" -> "v"
      [] OTHER -> s

\* str::to_lowercase on a string held as a sequence of characters.
ToLowerSeq(cs) == [i \in 1..Len(cs) |-> ToLower(cs[i])]

\* str::starts_with
StartsWith(s, prefix) ==
    /\ Len(prefix) <= Len(s)
    /\ \A i \in 1..Len(prefix) : s[i] = prefix[i]

(***************************************************************************)
(* Privilege and Identity (key_keeper/key.rs)                              *)
(***************************************************************************)

\* Privilege::is_match: case-insensitive prefix match of the request path
\* against privilege.path; when queryParameters is set, every listed
\* key/value must be present in the request's query.
PrivilegeIsMatch(privilege, request_url) ==
    /\ StartsWith(ToLowerSeq(request_url.path), ToLowerSeq(privilege.path))
    /\ IsSome(privilege.queryParameters) =>
          \A kv \in Unwrap(privilege.queryParameters) :
              \E q \in request_url.query :
                  /\ ToLower(q[1]) = ToLower(kv[1])
                  /\ ToLower(q[2]) = ToLower(kv[2])

\* Identity::is_match: every configured field must equal the corresponding
\* claim field (user, group and process name ignoring case, exePath
\* exactly).  test_authorization_rules (authorization_rules.rs:197-214,
\* 289-326) fixes this reading: an identity whose group, process name and
\* exe path equal the claims' but whose userName differs must not match.
IdentityIsMatch(identity, claims) ==
    /\ IsSome(identity.userName) =>
          ToLower(Unwrap(identity.userName)) = ToLower(claims.userName)
    /\ IsSome(identity.processName) =>
          ToLower(Unwrap(identity.processName)) = ToLower(claims.processName)
    /\ IsSome(identity.exePath) =>
          Unwrap(identity.exePath) = claims.processFullPath
    /\ IsSome(identity.groupName) =>
          \E i \in 1..Len(claims.userGroups) :
              ToLower(claims.userGroups[i]) = ToLower(Unwrap(identity.groupName))

(***************************************************************************)
(* AuthorizationRules::is_allowed                                          *)
(***************************************************************************)

\* for rule in rules { for privilege in &rule.privileges { if is_match {
\*     for identity in &rule.identities { if is_match { return true } } } } }
RuleAllows(rule, request_url, claims) ==
    \E p \in 1..Len(rule.privileges) :
        /\ PrivilegeIsMatch(rule.privileges[p], request_url)
        /\ \E i \in 1..Len(rule.identities) :
              IdentityIsMatch(rule.identities[i], claims)

\* role_privilege_matched after the scan (when no return true happened).
RolePrivilegeMatched(rules, request_url) ==
    \E r \in 1..Len(rules) :
        \E p \in 1..Len(rules[r].privileges) :
            PrivilegeIsMatch(rules[r].privileges[p], request_url)

MsgNoIdentity == "Privilege matched once, but no identity matches."

MsgDefault == "No privilege matched, fall back to default access."

Allowed(b, msgs) == [allowed |-> b, log |-> msgs]

\* Lines 113-142: the scan of the rules and the fall back to the default.
ScanRules(self, request_url, claims) ==
    IF /\ IsSome(self.rules)
       /\ \E r \in 1..Len(Unwrap(self.rules)) :
             RuleAllows(Unwrap(self.rules)[r], request_url, claims)
    THEN Allowed(TRUE, {})
    ELSE IF /\ IsSome(self.rules)
            /\ RolePrivilegeMatched(Unwrap(self.rules), request_url)
    THEN Allowed(FALSE, {MsgNoIdentity})
    ELSE Allowed(self.defaultAllowed, {MsgDefault})

\* Mutant: the mode check of lines 109-111 is missing.
is_allowed_no_mode_check(self, request_url, claims) ==
    ScanRules(self, request_url, claims)

\* Mutant: the explicit denial of lines 129-135 is missing, so a matched
\* privilege without a matching identity falls back to the default.
is_allowed_no_explicit_deny(self, request_url, claims) ==
    IF ToLower(self.mode) = "disabled"
    THEN Allowed(TRUE, {})
    ELSE IF /\ IsSome(self.rules)
            /\ \E r \in 1..Len(Unwrap(self.rules)) :
                  RuleAllows(Unwrap(self.rules)[r], request_url, claims)
    THEN Allowed(TRUE, {})
    ELSE Allowed(self.defaultAllowed, {MsgDefault})

\* Mutant: line 142 returns false instead of self.defaultAllowed.
is_allowed_default_deny(self, request_url, claims) ==
    IF ToLower(self.mode) = "disabled"
    THEN Allowed(TRUE, {})
    ELSE LET r == ScanRules(self, request_url, claims)
         IN  IF r.log = {MsgDefault} THEN Allowed(FALSE, r.log) ELSE r

\* Mutant: the scan stops at the first rule that has a matching privilege
\* (a return false inside the loop instead of after it).
is_allowed_first_rule_decides(self, request_url, claims) ==
    IF ToLower(self.mode) = "disabled"
    THEN Allowed(TRUE, {})
    ELSE IF /\ IsSome(self.rules)
            /\ RolePrivilegeMatched(Unwrap(self.rules), request_url)
    THEN LET rules == Unwrap(self.rules)
             first == CHOOSE r \in 1..Len(rules) :
                        /\ RolePrivilegeMatched(<<rules[r]>>, request_url)
                        /\ \A q \in 1..(r - 1) :
                              ~RolePrivilegeMatched(<<rules[q]>>, request_url)
         IN  IF RuleAllows(rules[first], request_url, claims)
             THEN Allowed(TRUE, {})
             ELSE Allowed(FALSE, {MsgNoIdentity})
    ELSE Allowed(self.defaultAllowed, {MsgDefault})

\* The value and the log lines of is_allowed(connection_id, url, claims).
is_allowed(self, request_url, claims) ==
    IF ToLower(self.mode) = "disabled"
    THEN Allowed(TRUE, {})
    ELSE ScanRules(self, request_url, claims)

(***************************************************************************)
(* Bounded inputs                                                          *)
(***************************************************************************)

\* Longest rule list of the rules that SpecAuth enumerates.
MaxRules == 2

Modes == {"disabled", "audit", "enforce"}

PathT == <<"/", "t">>

PathTt == <<"/", "T", "/", "t">>

PathO == <<"/", "o">>

PrivT == [name |-> "pt", path |-> <<"/", "T">>, queryParameters |-> None]

PrivOQ == [name |-> "poq", path |-> PathO,
           queryParameters |-> Some({<<"K", "v">>})]

IdUser == [name |-> "iu", userName |-> Some("Test"), groupName |-> None,
           processName |-> None, exePath |-> None]

IdGroupExe == [name |-> "ige", userName |-> None, groupName |-> Some("GRP"),
               processName |-> None, exePath |-> Some("/bin/a")]

PrivilegeLists == {<<>>, <<PrivT>>, <<PrivOQ, PrivT>>}

IdentityLists == {<<>>, <<IdUser>>, <<IdGroupExe, IdUser>>}

Rules == [roleName : {"r"}, privileges : PrivilegeLists, identities : IdentityLists]

SeqsUpTo(S, n) == UNION {[1..k -> S] : k \in 0..n}

AuthorizationRulesSet(n) ==
    [defaultAllowed : BOOLEAN, mode : Modes,
     rules : {None} \cup {Some(rs) : rs \in SeqsUpTo(Rules, n)}]

Urls ==
    {[path |-> PathT, query |-> {}],
     [path |-> PathTt, query |-> {<<"k", "v">>}],
     [path |-> PathO, query |-> {<<"k", "V">>}],
     [path |-> PathO, query |-> {<<"k", "w">>}]}

ClaimsOf(uid, user, groups, proc, path, admin) ==
    [userId |-> uid, userName |-> user, userGroups |-> groups, processId |-> 7,
     processName |-> proc, processFullPath |-> path, processCmdLine |-> proc,
     runAsElevated |-> admin, clientIp |-> "127.0.0.1"]

ClaimsSet ==
    {ClaimsOf(0, "test", <<"wheel">>, "a", "/bin/a", TRUE),
     ClaimsOf(1, "other", <<"wheel", "grp">>, "a", "/bin/a", FALSE),
     ClaimsOf(1, "other", <<"grp">>, "A", "/bin/A", FALSE)}

(***************************************************************************)
(* Constants of the request path                                           *)
(***************************************************************************)

INITIAL_CONNECTION_ID == 0

REQUEST_BODY_LOW_LIMIT_SIZE == 102400

REQUEST_BODY_LARGE_LIMIT_SIZE == 1024 * REQUEST_BODY_LOW_LIMIT_SIZE

OK == 200

BAD_REQUEST == 400

FORBIDDEN == 403

PAYLOAD_TOO_LARGE == 413

MISDIRECTED_REQUEST == 421

INTERNAL_SERVER_ERROR == 500

BAD_GATEWAY == 502

SERVICE_UNAVAILABLE == 503

UNDEFINED == "undefined"

EMPTY == "empty"

\* The two redirected endpoints (spec section 1), as dotted-quad octets.
WIRE_SERVER_IP == <<168, 63, 129, 16>>

IMDS_IP == <<169, 254, 169, 254>>

\* provision::PROVISION_URL_PATH
PROVISION_URL_PATH == [path |-> <<"/", "p">>, query |-> {}]

\* crate::key_keeper::UNKNOWN_STATE, the channel state of SharedState::default
UNKNOWN_STATE == "Unknown"

UNKNOWN_STATUS_MESSAGE == "Status unknown."

START_LISTENER_RETRY_COUNT == 5

\* constants::CLAIMS_IS_ROOT
CLAIMS_IS_ROOT == "isRoot"

(***************************************************************************)
(* Shared state (shared_state.rs)                                          *)
(***************************************************************************)

\* key_keeper_wrapper::get_current_key_value
get_current_key_value(k) == IF IsSome(k) THEN Some(Unwrap(k).key) ELSE None

\* Mutant: without a key the guid is the empty string instead of None.
get_current_key_guid_or_default(k) ==
    IF IsSome(k) THEN Some(Unwrap(k).guid) ELSE Some("")

\* key_keeper_wrapper::get_current_key_guid
get_current_key_guid(k) == IF IsSome(k) THEN Some(Unwrap(k).guid) ELSE None

\* A u128 is held as U128_LIMBS limbs of 16 bits, least significant first
\* (8 * 16 = 128 bits).
U128_LIMBS == 8

LIMB == 65536

\* The u128 with the value n, for n < LIMB.
u128_from(n) == [i \in 1..U128_LIMBS |-> IF i = 1 THEN n ELSE 0]

U128_MAX == [i \in 1..U128_LIMBS |-> LIMB - 1]

\* The carry into limb i when x and y are added.
RECURSIVE CarryInto(_, _, _)
CarryInto(x, y, i) ==
    IF i = 1 THEN 0
    ELSE (x[i - 1] + y[i - 1] + CarryInto(x, y, i - 1)) \div LIMB

\* u128::overflowing_add: the sum modulo 2^128 and whether it overflowed.
overflowing_add(x, y) ==
    <<[i \in 1..U128_LIMBS |-> (x[i] + y[i] + CarryInto(x, y, i)) % LIMB],
      CarryInto(x, y, U128_LIMBS + 1) = 1>>

\* Mutant: the count stays at u128::MAX instead of wrapping.
increase_connection_count_saturating(count) ==
    IF count = U128_MAX THEN count ELSE overflowing_add(count, u128_from(1))[1]

\* proxy_listener_wrapper::increase_connection_count: the count that is
\* stored and returned (lines 203-204).
increase_connection_count(count) == overflowing_add(count, u128_from(1))[1]

\* Mutant: the lock does not exclude other tasks.
CanLock_always(m) == TRUE

\* Mutex::lock (line 202): the lock is taken when no task holds it.
CanLock(m) == ~IsSome(m)

(***************************************************************************)
(* Audit entry (redirector.rs) and claims (proxy.rs)                       *)
(***************************************************************************)

\* A u32 is held as its four bytes, least significant first; a u16 as a
\* number.  The hosts the agent is built for are little-endian.
SwapBytes32(b) == <<b[4], b[3], b[2], b[1]>>

SwapBytes16(n) == (n % 256) * 256 + (n \div 256)

\* u32::to_be and u16::from_be on a little-endian host.
to_be32(b) == SwapBytes32(b)

from_be16(n) == SwapBytes16(n)

\* Ipv4Addr::from_bits: the octets are the bytes of the value, most
\* significant first.
Ipv4Addr_from_bits(b) == <<b[4], b[3], b[2], b[1]>>

\* Mutant: the port is used as the audit entry holds it, in network byte
\* order.
destination_port_unconverted(e) == e.destination_port

\* AuditEntry::destination_port_in_host_byte_order
destination_port_in_host_byte_order(e) == from_be16(e.destination_port)

\* AuditEntry::destination_ipv4_addr
destination_ipv4_addr(e) == Ipv4Addr_from_bits(to_be32(e.destination_ipv4))

\* Claims::empty
Claims_empty ==
    [userId |-> 0, userName |-> EMPTY, userGroups |-> <<>>, processId |-> 0,
     processName |-> EMPTY, processFullPath |-> EMPTY, processCmdLine |-> EMPTY,
     runAsElevated |-> FALSE, clientIp |-> EMPTY]

\* User::from_logon_id, given what the lookup of the host returned for the
\* logon id (windows::get_user, or users::get_user_by_uid with
\* users::get_user_groups): Some(user), or None for Err.  When the lookup
\* found nothing, the name is the sentinel on Linux; on Windows
\* windows::get_user fails and `?` returns the error.
User_from_lookup(logon_id, found) ==
    IF IsSome(found)
    THEN Some([logon_id |-> logon_id, user_name |-> Unwrap(found).name,
               user_groups |-> Unwrap(found).groups])
    ELSE IF windows
    THEN None
    ELSE Some([logon_id |-> logon_id, user_name |-> UNDEFINED, user_groups |-> <<>>])

\* User::from_logon_id on a host where logon id 0 is a known account and
\* any other id is unknown.
User_from_logon_id(logon_id) ==
    User_from_lookup(logon_id,
                     IF logon_id = 0 THEN Some([name |-> "test", groups |-> <<"grp">>])
                     ELSE None)

\* get_user: the cache in front of User::from_logon_id memoizes successful
\* resolutions and does not change what is returned.
get_user(logon_id) == User_from_logon_id(logon_id)

\* Process::from_pid: pid 7 is a running process, any other pid is gone.
Process_from_pid(pid) ==
    IF pid = 7
    THEN [pid |-> pid, name |-> "a", exe_full_name |-> "/bin/a", command_line |-> "a -x"]
    ELSE [pid |-> pid, name |-> UNDEFINED, exe_full_name |-> UNDEFINED,
          command_line |-> UNDEFINED]

\* Claims::from_audit_entry: Some(claims), or None for Err.
from_audit_entry(e, client_ip) ==
    LET p == Process_from_pid(e.process_id)
        u == get_user(e.logon_id)
    IN  IF ~IsSome(u)
        THEN None
        ELSE Some([userId |-> e.logon_id,
                   userName |-> Unwrap(u).user_name,
                   userGroups |-> Unwrap(u).user_groups,
                   processId |-> p.pid,
                   processName |-> p.name,
                   processFullPath |-> p.exe_full_name,
                   processCmdLine |-> p.command_line,
                   runAsElevated |-> (e.is_admin = 1),
                   clientIp |-> client_ip])

(***************************************************************************)
(* Collaborators of the handler                                            *)
(***************************************************************************)

\* hyper_client::should_skip_sig: (method, path) is on the whitelist of
\* large-payload endpoints.
SkipSigWhitelist == {<<"PUT", <<"/", "v">>>>}

should_skip_sig(method, url) == <<method, url.path>> \in SkipSigWhitelist

\* proxy_authorizer::authorize: the rules are chosen by the destination ip
\* (wire server rules | IMDS rules), evaluated by is_allowed, and the
\* decision is the evaluation, or allow when the rules' mode is "audit".
authorize(ip, port, request_url, claims, wireserver_rules, imds_rules) ==
    LET rules == IF ip = WIRE_SERVER_IP THEN wireserver_rules ELSE imds_rules
        ev == is_allowed(rules, request_url, claims)
    IN  [rules |-> rules, request_url |-> request_url, claims |-> claims,
         evaluation |-> ev.allowed,
         allowed |-> (ev.allowed \/ rules.mode = "audit"),
         log |-> ev.log]

(***************************************************************************)
(* The body-limit layer (accept_one_request, lines 198-231)                *)
(***************************************************************************)

\* Mutant: the two branches of lines 204-211 are swapped.
BodyLimit_swapped(method, url) ==
    IF should_skip_sig(method, url)
    THEN REQUEST_BODY_LOW_LIMIT_SIZE
    ELSE REQUEST_BODY_LARGE_LIMIT_SIZE

\* Mutant: every request gets the layer with the low limit.
BodyLimit_low_only(method, url) == REQUEST_BODY_LOW_LIMIT_SIZE

\* The limit of the RequestBodyLimitLayer chosen for a request.
BodyLimit(method, url) ==
    IF should_skip_sig(method, url)
    THEN REQUEST_BODY_LARGE_LIMIT_SIZE
    ELSE REQUEST_BODY_LOW_LIMIT_SIZE

\* RequestBodyLimit::call answers 413 without calling the inner service when
\* the Content-Length header announces more than the limit.
LayerRejects(req) ==
    /\ IsSome(req.content_length)
    /\ Unwrap(req.content_length) > BodyLimit(req.method, req.url)

\* Otherwise the body is wrapped in Limited, whose limit is the layer's
\* limit or the announced length if that is smaller; reading more than the
\* limit from it is an error.
LimitedBodyFails(req) ==
    LET limit == BodyLimit(req.method, req.url)
        body_limit == IF IsSome(req.content_length) /\ Unwrap(req.content_length) < limit
                      THEN Unwrap(req.content_length)
                      ELSE limit
    IN  req.body_len > body_limit

(***************************************************************************)
(* handle_request and what it calls                                        *)
(***************************************************************************)

\* The name of the header that carries the signature to the host and marks
\* the response to the client.
AUTHORIZATION_HEADER == "x-ms-azure-host-authorization"

CLAIMS_HEADER == "x-ms-azure-host-claims"

DATE_HEADER == "x-ms-azure-host-date"

AUTHORIZATION_SCHEME == "Azure-HMAC-SHA256"

CONTENT_TYPE == "content-type"

\* A response is [status, headers, body]: headers is the HeaderMap, a
\* sequence of <<name, value>> in which a name may occur more than once;
\* body is the sequence of the frames of the body, each a data frame with
\* its bytes or a trailers frame.
DataFrame(bytes) == [kind |-> "data", data |-> bytes]

TrailersFrame == [kind |-> "trailers", data |-> <<>>]

\* hyper_client::full_body: one data frame with the bytes.
full_body(bytes) == <<DataFrame(bytes)>>

\* hyper_client::empty_body
empty_body == <<>>

\* Mutant: the value is appended to those the map holds for the name.
HeaderMap_append(headers, name, value) == Append(headers, <<name, value>>)

\* HeaderMap::insert: the value becomes the only value of the name; all
\* values the map held for the name are removed.
HeaderMap_insert(headers, name, value) ==
    Append(SelectSeq(headers, LAMBDA h : h[1] # name), <<name, value>>)

\* The values a HeaderMap holds for a name, in order.
HeaderValues(headers, name) ==
    LET held == SelectSeq(headers, LAMBDA h : h[1] = name)
    IN  [i \in 1..Len(held) |-> held[i][2]]

\* empty_response
empty_response(status_code) ==
    [status |-> status_code, headers |-> <<>>, body |-> empty_body]

\* Mutant: the summary of a connection without claims carries the
\* "undefined" sentinel of a failed lookup instead of Claims::empty().
log_connection_summary_undefined(conn, response_status) ==
    LET claims == IF IsSome(conn.claims) THEN Unwrap(conn.claims)
                  ELSE [Claims_empty EXCEPT !.userName = UNDEFINED]
    IN  [id |-> conn.id, userId |-> claims.userId, userName |-> claims.userName,
         userGroups |-> claims.userGroups, clientIp |-> claims.clientIp,
         processFullPath |-> claims.processFullPath,
         processCmdLine |-> claims.processCmdLine,
         runAsElevated |-> claims.runAsElevated,
         method |-> conn.method, url |-> conn.url,
         ip |-> conn.ip, port |-> conn.port,
         responseStatus |-> response_status]

\* log_connection_summary: the ProxySummary that is emitted.
log_connection_summary(conn, response_status) ==
    LET claims == IF IsSome(conn.claims) THEN Unwrap(conn.claims) ELSE Claims_empty
    IN  [id |-> conn.id, userId |-> claims.userId, userName |-> claims.userName,
         userGroups |-> claims.userGroups, clientIp |-> claims.clientIp,
         processFullPath |-> claims.processFullPath,
         processCmdLine |-> claims.processCmdLine,
         runAsElevated |-> claims.runAsElevated,
         method |-> conn.method, url |-> conn.url,
         ip |-> conn.ip, port |-> conn.port,
         responseStatus |-> response_status]

\* Mutant: the `!` of line 395 is missing.
Denied_inverted(authorized) == authorized

\* Mutant: the check of lines 395-409 is missing.
Denied_never(authorized) == FALSE

\* Line 395: if !proxy_authorizer::authorize(...) { ... return 403 }
Denied(authorized) == ~authorized

\* The state of the request when handle_request returns or suspends.
Outcome(conn, ent, az, preq, up, resp, sum, lg, next) ==
    [connection |-> conn, entry |-> ent, authz |-> az, proxy_request |-> preq,
     upstream |-> up, response |-> resp, summary |-> sum, log |-> lg, pc |-> next]

\* Lines 414-423: the value of the claims header, built from the claims of
\* the connection.
host_claims(claims) == <<CLAIMS_IS_ROOT, claims.runAsElevated>>

\* Mutant: the claims header is appended to the values the request holds.
InsertClaims_appended(headers, claims) ==
    HeaderMap_append(headers, CLAIMS_HEADER, host_claims(claims))

\* Lines 424-435: proxy_request.headers_mut().insert(CLAIMS_HEADER, ...)
InsertClaims(headers, claims) ==
    HeaderMap_insert(headers, CLAIMS_HEADER, host_claims(claims))

\* Mutant: the date header is not inserted.
InsertDate_skipped(headers) == headers

\* Lines 436-448: proxy_request.headers_mut().insert(DATE_HEADER, ...); the
\* clock is read once for a request.
InsertDate(headers) == HeaderMap_insert(headers, DATE_HEADER, "date")

\* Lines 411-468: the request of the client, its headers included, becomes
\* the proxy request; the claims and date headers are inserted (their values, a
\* bool and an RFC 1123 date, are always header values, so the 502 of lines
\* 432 and 445 is not reached; nor is the 421 of line 380, a Claims record
\* always serializes); a whitelisted
\* request is handed to hyper_client::send_request with its body still
\* streaming, any other goes to handle_request_with_signature.
BuildProxyRequest(req, conn, ent, az, claims) ==
    LET preq == [method |-> req.method, url |-> req.url,
                 headers |-> InsertDate(InsertClaims(req.headers, claims)),
                 metadata |-> req.metadata]
    IN  IF should_skip_sig(conn.method, conn.url)
        THEN Outcome(conn, ent, Some(az), Some(preq),
                     <<[ip |-> Unwrap(conn.ip), port |-> conn.port, request |-> preq]>>,
                     None, None, az.log \cup {"Skip compute signature"}, "upstream")
        ELSE Outcome(conn, ent, Some(az), Some(preq), <<>>, None, None, az.log,
                     "collect")

\* Lines 303-339: redirector::lookup_audit by source port and, on Windows
\* only, redirector::get_audit_from_stream_socket when that failed.
LookupEntry(primary, socket) ==
    IF IsSome(primary) THEN primary
    ELSE IF windows THEN socket
    ELSE None

LookupLog(primary, socket) ==
    IF IsSome(primary) THEN {}
    ELSE IF windows /\ ~IsSome(socket)
    THEN {"Failed to get lookup_audit", "Failed to get lookup_audit_from_stream"}
    ELSE {"Failed to get lookup_audit"}

\* Lines 340-468 of handle_request for a request that is not the
\* provisioning check: `looked` is what the audit lookup found for the
\* source port, the two rules are what the shared state holds.
handle_request(req, conn, looked, wireserver_rules, imds_rules) ==
    IF ~IsSome(looked)
    THEN Outcome(conn, None, None, None, <<>>,
                 Some(empty_response(MISDIRECTED_REQUEST)),
                 Some(log_connection_summary(conn, MISDIRECTED_REQUEST)),
                 {}, "done")
    ELSE
    LET e == Unwrap(looked)
        got == from_audit_entry(e, conn.client_ip)
    IN  IF ~IsSome(got)
        THEN Outcome(conn, looked, None, None, <<>>,
                     Some(empty_response(MISDIRECTED_REQUEST)),
                     Some(log_connection_summary(conn, MISDIRECTED_REQUEST)),
                     {"Failed to get claims from audit entry"}, "done")
        ELSE
        LET claims == Unwrap(got)
            ip == destination_ipv4_addr(e)
            port == destination_port_in_host_byte_order(e)
            conn1 == [conn EXCEPT !.claims = Some(claims), !.ip = Some(ip),
                                  !.port = port]
            az == authorize(ip, port, req.url, claims, wireserver_rules, imds_rules)
        IN  IF Denied(az.allowed)
            THEN Outcome(conn1, looked, Some(az), None, <<>>,
                         Some(empty_response(FORBIDDEN)),
                         Some(log_connection_summary(conn1, FORBIDDEN)),
                         az.log \cup {"Denied unauthorize request"}, "done")
            ELSE BuildProxyRequest(req, conn1, looked, az, claims)

\* handle_provision_state_check_request: 400 without a Metadata header;
\* otherwise the key keeper is notified and the provision state is returned
\* as JSON, or 500 when it cannot be serialized.
handle_provision_state_check_request(req, conn, serialized) ==
    IF ~req.metadata
    THEN [response |-> empty_response(BAD_REQUEST), notified |-> FALSE,
          log |-> {"No MetaData header found in the request."}]
    ELSE IF serialized
    THEN [response |-> [status |-> OK,
                        headers |-> HeaderMap_insert(<<>>, CONTENT_TYPE,
                                        "application/json; charset=utf-8"),
                        body |-> full_body(<<"json">>)],
          notified |-> TRUE, log |-> {"Provision state"}]
    ELSE [response |-> [status |-> INTERNAL_SERVER_ERROR, headers |-> <<>>,
                        body |-> full_body(<<"error">>)],
          notified |-> TRUE, log |-> {"Failed to get provision state"}]

\* HeaderValue::from_str fails on a value with a byte that is not visible
\* ASCII.
InvalidHeaderText == {"guid-with-LF"}

HeaderValueValid(text) == text \notin InvalidHeaderText

\* u8::to_be: the bytes of a u8 in big-endian order are the u8 itself.
u8_to_be(byte) == byte

\* Mutant: a data frame is forwarded with its bytes in reverse order.
map_frame_reversed(frame) ==
    IF frame.kind = "data"
    THEN DataFrame([i \in 1..Len(frame.data) |->
                       frame.data[Len(frame.data) + 1 - i]])
    ELSE DataFrame(<<>>)

\* Lines 532-546, the closure given to body.map_frame: a data frame is
\* rebuilt from its bytes; a frame that is not data (trailers) makes
\* into_data fail and is replaced by an empty data frame.
map_frame(frame) ==
    IF frame.kind = "data"
    THEN DataFrame([i \in 1..Len(frame.data) |-> u8_to_be(frame.data[i])])
    ELSE DataFrame(<<>>)

\* Mutant: the request to the host is answered 502 when it fails.
forward_response_bad_gateway(proxy_response, conn) ==
    IF ~IsSome(proxy_response)
    THEN [response |-> empty_response(BAD_GATEWAY),
          summary |-> log_connection_summary(conn, BAD_GATEWAY),
          log |-> {"Failed to send request to host"}]
    ELSE [response |-> Unwrap(proxy_response),
          summary |-> log_connection_summary(conn, Unwrap(proxy_response).status),
          log |-> {}]

\* forward_response: 503 when the request to the host failed; otherwise the
\* host's response (its head, and its body frame by frame through
\* map_frame) with the fixed x-ms-azure-host-authorization header
\* inserted.  A summary is logged on both paths.
forward_response(proxy_response, conn) ==
    IF ~IsSome(proxy_response)
    THEN [response |-> empty_response(SERVICE_UNAVAILABLE),
          summary |-> log_connection_summary(conn, SERVICE_UNAVAILABLE),
          log |-> {"Failed to send request to host"}]
    ELSE LET head == Unwrap(proxy_response)
             frames == [i \in 1..Len(head.body) |-> map_frame(head.body[i])]
         IN  [response |-> [status |-> head.status,
                            headers |-> HeaderMap_insert(head.headers,
                                            AUTHORIZATION_HEADER, "value"),
                            body |-> frames],
              summary |-> log_connection_summary(conn, head.status),
              log |-> IF \E i \in 1..Len(head.body) : head.body[i].kind # "data"
                      THEN {"Failed to get frame data"} ELSE {}]

(***************************************************************************)
(* Bounded inputs of Spec                                                  *)
(***************************************************************************)

\* Connections the listener accepts in one run.
MaxRequests == 2

UrlT == [path |-> PathT, query |-> {}]

UrlO == [path |-> PathO, query |-> {<<"k", "w">>}]

UrlV == [path |-> <<"/", "v">>, query |-> {}]

ClientTargets ==
    {<<"GET", PROVISION_URL_PATH>>, <<"GET", UrlT>>, <<"POST", UrlO>>,
     <<"PUT", UrlV>>, <<"POST", UrlV>>}

BodySizes ==
    {REQUEST_BODY_LOW_LIMIT_SIZE, REQUEST_BODY_LOW_LIMIT_SIZE + 1,
     REQUEST_BODY_LARGE_LIMIT_SIZE, REQUEST_BODY_LARGE_LIMIT_SIZE + 1}

\* A body is framed by Content-Length (and then has that length) or is
\* chunked (no Content-Length, any length).
Framings ==
    {[content_length |-> cl, body_len |-> n] :
        cl \in {None}, n \in BodySizes \ {REQUEST_BODY_LARGE_LIMIT_SIZE}}
        \cup {[content_length |-> Some(n), body_len |-> n] : n \in BodySizes}

SmallBody ==
    [content_length |-> Some(REQUEST_BODY_LOW_LIMIT_SIZE),
     body_len |-> REQUEST_BODY_LOW_LIMIT_SIZE]

OversizedBody ==
    [content_length |-> Some(REQUEST_BODY_LOW_LIMIT_SIZE + 1),
     body_len |-> REQUEST_BODY_LOW_LIMIT_SIZE + 1]

\* The provisioning path followed by a query.
UrlProvisionQuery == [path |-> PROVISION_URL_PATH.path, query |-> {<<"k", "w">>}]

\* headers holds the headers of the request this model follows by name:
\* those the agent inserts on its way, which a client may send as well.
RequestOf(method, url, metadata, f) ==
    [method |-> method, url |-> url, metadata |-> metadata, headers |-> <<>>,
     content_length |-> f.content_length, body_len |-> f.body_len]

\* The headers a client sends to pass for an elevated caller with a signed
\* request: a claims header, and an authorization header whose signature it
\* made up.
ForgedSignature ==
    [key |-> "client", input |-> [method |-> "GET", url |-> UrlT, headers |-> <<>>]]

ForgedHeaders ==
    <<<<CLAIMS_HEADER, <<CLAIMS_IS_ROOT, TRUE>>>>,
      <<AUTHORIZATION_HEADER, <<AUTHORIZATION_SCHEME, "guid-1", ForgedSignature>>>>>>

WithHeaders(req, headers) == [req EXCEPT !.headers = headers]

\* The GET requests carry a small body (one provisioning check announces
\* a large one); the others every framing.  Only a provisioning check is
\* sent with the Metadata header.
ClientRequests ==
    {RequestOf("GET", PROVISION_URL_PATH, m, SmallBody) : m \in BOOLEAN}
    \cup {RequestOf("GET", UrlProvisionQuery, TRUE, SmallBody),
          RequestOf("GET", PROVISION_URL_PATH, FALSE, OversizedBody)}
    \cup {RequestOf("GET", UrlT, FALSE, SmallBody)}
    \cup {WithHeaders(RequestOf(t[1], t[2], FALSE, SmallBody), ForgedHeaders) :
            t \in {<<"GET", UrlT>>, <<"PUT", UrlV>>}}
    \cup {RequestOf(t[1], t[2], FALSE, f) :
            t \in ClientTargets \ {<<"GET", PROVISION_URL_PATH>>, <<"GET", UrlT>>},
            f \in Framings}

\* Port 80 in network byte order, read as a u16 on a little-endian host.
PORT_80_BE == 20480

AuditEntryOf(logon_id, process_id, is_admin, destination_ipv4) ==
    [logon_id |-> logon_id, process_id |-> process_id, is_admin |-> is_admin,
     destination_ipv4 |-> destination_ipv4, destination_port |-> PORT_80_BE]

\* destination_ipv4 holds the address in network byte order: read as a u32
\* on a little-endian host, its least significant byte is the first octet.
AuditEntries ==
    {AuditEntryOf(0, 7, 1, WIRE_SERVER_IP), AuditEntryOf(0, 7, 0, IMDS_IP),
     AuditEntryOf(9, 7, 0, WIRE_SERVER_IP), AuditEntryOf(9, 8, 1, IMDS_IP)}

Lookups == {None} \cup {Some(e) : e \in AuditEntries}

\* What the Windows fallback reads from the socket (lines 315-339).
SocketLookups == {None, Some(AuditEntryOf(0, 7, 1, WIRE_SERVER_IP))}

KeeperRules ==
    [defaultAllowed : BOOLEAN, mode : Modes,
     rules : {Some(<<[roleName |-> "r", privileges |-> <<PrivT>>,
                      identities |-> <<IdUser>>]>>)}]

Keys == {[guid |-> "guid-1", key |-> "k1"], [guid |-> "guid-with-LF", key |-> "k2"]}

\* What hyper_client::send_request returns: an error, or the response of
\* the host, which may already hold headers of the name the proxy inserts
\* and whose body may end with a trailers frame.
HostResponses ==
    {None,
     Some([status |-> OK, headers |-> <<<<CONTENT_TYPE, "text/xml">>>>,
           body |-> <<DataFrame(<<1, 2>>), DataFrame(<<3>>)>>]),
     Some([status |-> 404,
           headers |-> <<<<AUTHORIZATION_HEADER, "host">>>>,
           body |-> empty_body]),
     Some([status |-> OK,
           headers |-> <<<<AUTHORIZATION_HEADER, "a">>, <<CONTENT_TYPE, "text/xml">>,
                         <<AUTHORIZATION_HEADER, "b">>>>,
           body |-> <<DataFrame(<<255, 0>>), TrailersFrame>>])}

\* hyper_client::send_request: the host's response, or an error.  A body
\* that is still streaming (a whitelisted request) and turns out longer than
\* the Limited body allows ends the request with an error.
SendRequestResults(req) ==
    IF should_skip_sig(req.method, req.url) /\ LimitedBodyFails(req)
    THEN {None}
    ELSE HostResponses

(***************************************************************************)
(* Spec: the actions                                                       *)
(***************************************************************************)

RequestIdle ==
    /\ pc = "listening"
    /\ request = None
    /\ audit = None
    /\ socket_audit = None
    /\ connection = None
    /\ entry = None
    /\ authz = None
    /\ proxy_request = None
    /\ key_value = None
    /\ upstream = <<>>
    /\ response = None
    /\ summary = None
    /\ notified = FALSE
    /\ log = {}
    /\ layer_limit = None
    /\ host_response = None

ConnIdle ==
    /\ handlers = <<>>
    /\ mutex = None

IpIdle ==
    /\ ipIn = None
    /\ ipStr = None
    /\ ipOut = None

ListenerIdle ==
    /\ lpc = "idle"
    /\ retry_i = 0
    /\ bind_results = <<>>
    /\ listener = None
    /\ cancelled = FALSE
    /\ tasks = <<>>
    /\ accept_errors = 0

\* SharedState::default (shared_state.rs 35-50), and no wrapper called yet.
StateIdle ==
    /\ current_secure_channel_state = UNKNOWN_STATE
    /\ wireserver_rule_id = ""
    /\ imds_rule_id = ""
    /\ key_keeper_shutdown = FALSE
    /\ key_keeper_status_message = UNKNOWN_STATUS_MESSAGE
    /\ proxy_listner_shutdown = FALSE
    /\ proxy_listner_status_message = UNKNOWN_STATUS_MESSAGE
    /\ ret = None

UserIdle ==
    /\ users = <<>>
    /\ callers = <<>>

ItemIdle ==
    /\ itemIn = None
    /\ itemOut = None

LockIdle ==
    /\ locks = <<>>
    /\ workers = <<>>
    /\ calls = 0

AuthIdle ==
    /\ authRules = None
    /\ authUrl = None
    /\ authClaims = None
    /\ authResult = None
    /\ authLog = {}

Init ==
    /\ windows \in BOOLEAN
    /\ key = None
    /\ connection_count = u128_from(0)
    /\ accepted = 0
    /\ RequestIdle
    /\ LockIdle
    /\ ItemIdle
    /\ ListenerIdle
    /\ StateIdle
    /\ UserIdle
    /\ AuthIdle
    /\ ConnIdle
    /\ IpIdle

\* key_keeper_wrapper::set_key, called by the key keeper.
SetKey ==
    /\ \E k \in Keys : key' = Some(k)
    /\ UNCHANGED <<authVars, lockVars, itemVars, listenerVars, stateVars, userVars, connVars, ipVars, windows, connection_count, accepted, requestVars>>

\* key_keeper_wrapper::clear_key
ClearKey ==
    /\ key' = None
    /\ UNCHANGED <<authVars, lockVars, itemVars, listenerVars, stateVars, userVars, connVars, ipVars, windows, connection_count, accepted, requestVars>>

\* The listener accepts a connection and hyper hands its request to the
\* service (lines 198-231): the body-limit layer answers 413 itself, or
\* builds the ConnectionContext and calls handle_request.
AcceptOneRequest ==
    /\ pc \in {"listening", "done"}
    /\ accepted < MaxRequests
    /\ accepted' = accepted + 1
    /\ audit' \in Lookups
    /\ socket_audit' \in IF windows THEN SocketLookups ELSE {None}
    /\ \E req \in ClientRequests :
          /\ request' = Some(req)
          /\ IF LayerRejects(req)
             THEN /\ connection' = None
                  /\ response' = Some(empty_response(PAYLOAD_TOO_LARGE))
                  /\ pc' = "done"
                  /\ layer_limit' = Some(BodyLimit(req.method, req.url))
             ELSE /\ connection' = Some([id |-> u128_from(INITIAL_CONNECTION_ID),
                                         client_ip |-> "127.0.0.1",
                                         method |-> req.method, url |-> req.url,
                                         ip |-> None, port |-> 0, claims |-> None])
                  /\ response' = None
                  /\ pc' = "handle"
                  /\ layer_limit' = Some(BodyLimit(req.method, req.url))
    /\ entry' = None
    /\ authz' = None
    /\ proxy_request' = None
    /\ key_value' = None
    /\ upstream' = <<>>
    /\ summary' = None
    /\ notified' = FALSE
    /\ log' = {}
    /\ host_response' = None
    /\ UNCHANGED <<authVars, lockVars, itemVars, listenerVars, stateVars, userVars, connVars, ipVars, windows, key, connection_count>>

\* handle_request up to its first await (lines 280-468).
HandleRequest ==
    /\ pc = "handle"
    /\ connection_count' = increase_connection_count(connection_count)
    /\ LET req == Unwrap(request)
           conn == [Unwrap(connection) EXCEPT !.id = connection_count']
       IN  IF conn.url = PROVISION_URL_PATH
           THEN \E serialized \in BOOLEAN :
                  LET r == handle_provision_state_check_request(req, conn, serialized)
                  IN  /\ connection' = Some(conn)
                      /\ response' = Some(r.response)
                      /\ notified' = r.notified
                      /\ log' = r.log
                      /\ pc' = "done"
                      /\ UNCHANGED <<entry, authz, proxy_request, upstream, summary>>
           ELSE \E wireserver_rules \in KeeperRules, imds_rules \in KeeperRules :
                  LET r == handle_request(req, conn, LookupEntry(audit, socket_audit),
                                          wireserver_rules, imds_rules)
                  IN  /\ connection' = Some(r.connection)
                      /\ entry' = r.entry
                      /\ authz' = r.authz
                      /\ proxy_request' = r.proxy_request
                      /\ upstream' = r.upstream
                      /\ response' = r.response
                      /\ summary' = r.summary
                      /\ log' = LookupLog(audit, socket_audit) \cup r.log
                      /\ pc' = r.pc
                      /\ UNCHANGED notified
    /\ UNCHANGED <<authVars, lockVars, itemVars, listenerVars, stateVars, userVars, connVars, ipVars, windows, key, accepted, request, layer_limit, host_response, audit, socket_audit,
                   key_value>>

\* handle_request_with_signature, lines 611-621: the whole body is read
\* from the Limited body.  Reading fails when the body is longer than the
\* limit, or when the client stops sending (read_ok = FALSE); either way the
\* answer is 400.
CollectBody ==
    /\ pc = "collect"
    /\ \E read_ok \in BOOLEAN :
          IF LimitedBodyFails(Unwrap(request)) \/ ~read_ok
          THEN /\ response' = Some(empty_response(BAD_REQUEST))
               /\ log' = log \cup {"Failed to receive the request body"}
               /\ pc' = "done"
          ELSE /\ log' = log \cup {"Received the client request body"}
               /\ pc' = "key_value"
               /\ UNCHANGED response
    /\ UNCHANGED <<authVars, lockVars, itemVars, listenerVars, stateVars, userVars, connVars, ipVars, processVars, request, layer_limit, host_response, audit, socket_audit, connection,
                   entry, authz,
                   proxy_request, key_value, upstream, summary, notified>>

\* Line 640: key_keeper_wrapper::get_current_key_value
ReadKeyValue ==
    /\ pc = "key_value"
    /\ key_value' = get_current_key_value(key)
    /\ pc' = "key_guid"
    /\ UNCHANGED <<authVars, lockVars, itemVars, listenerVars, stateVars, userVars, connVars, ipVars, processVars, request, layer_limit, host_response, audit, socket_audit, connection,
                   entry, authz,
                   proxy_request, upstream, response, summary, notified, log>>

\* hyper_client::as_sig_input: the canonical input of the signature, made
\* of the method line, of every header of the head in insertion order and
\* of the body (the body is the one the client sent and is left out here).
as_sig_input(head) ==
    [method |-> head.method, url |-> head.url, headers |-> head.headers]

\* helpers::compute_signature: the keyed digest of the input, kept as the
\* pair it is computed from.
compute_signature(key_bytes, input) == [key |-> key_bytes, input |-> input]

\* Lines 648-649: format!("{} {} {}", AUTHORIZATION_SCHEME, key_guid, sig)
authorization_value(key_guid, sig) == <<AUTHORIZATION_SCHEME, key_guid, sig>>

\* The values a request holds for the authorization header.
AuthorizationHeader(req) == HeaderValues(req.headers, AUTHORIZATION_HEADER)

\* Lines 641-694: key_keeper_wrapper::get_current_key_guid; with a key and
\* a guid the request is signed (compute_signature may fail, which is only
\* logged) and the authorization header is inserted, 502 when its value is
\* no header value; then the request is sent to the host.
SignAndSend ==
    /\ pc = "key_guid"
    /\ \E sig_ok \in BOOLEAN :
        LET key_guid == get_current_key_guid(key)
            conn == Unwrap(connection)
            sign == IsSome(key_value) /\ IsSome(key_guid) /\ sig_ok
            head == Unwrap(proxy_request)
            input_to_sign == as_sig_input(head)
            signed == [head EXCEPT
                         !.headers =
                             HeaderMap_insert(@, AUTHORIZATION_HEADER,
                                 authorization_value(Unwrap(key_guid),
                                     compute_signature(Unwrap(key_value),
                                                       input_to_sign)))]
        IN  IF sign /\ ~HeaderValueValid(Unwrap(key_guid))
            THEN /\ response' = Some(empty_response(BAD_GATEWAY))
                 /\ log' = log \cup {"Failed to add authorization header"}
                 /\ pc' = "done"
                 /\ UNCHANGED <<proxy_request, upstream>>
            ELSE /\ proxy_request' = IF sign THEN Some(signed) ELSE proxy_request
                 /\ upstream' = Append(upstream,
                                       [ip |-> Unwrap(conn.ip), port |-> conn.port,
                                        request |-> Unwrap(proxy_request')])
                 /\ log' = log \cup
                      (IF sign THEN {"Added authorization header"}
                       ELSE IF IsSome(key_value) /\ IsSome(key_guid)
                       THEN {"compute_signature failed"}
                       ELSE {"current key is empty, skip computing the signature."})
                 /\ pc' = "upstream"
                 /\ UNCHANGED response
    /\ UNCHANGED <<authVars, lockVars, itemVars, listenerVars, stateVars, userVars, connVars, ipVars, processVars, request, layer_limit, host_response, audit, socket_audit, connection,
                   entry, authz,
                   key_value, summary, notified>>

\* hyper_client::send_request returns and forward_response answers the
\* client (lines 509-556).
ForwardResponse ==
    /\ pc = "upstream"
    /\ \E proxy_response \in SendRequestResults(Unwrap(request)) :
          LET r == forward_response(proxy_response, Unwrap(connection))
          IN  /\ response' = Some(r.response)
              /\ summary' = Some(r.summary)
              /\ host_response' = proxy_response
              /\ log' = log \cup r.log
    /\ pc' = "done"
    /\ UNCHANGED <<authVars, lockVars, itemVars, listenerVars, stateVars, userVars, connVars, ipVars, processVars, request, layer_limit, audit, socket_audit, connection,
                   entry, authz,
                   proxy_request, key_value, upstream, notified>>

Next ==
    \/ SetKey
    \/ ClearKey
    \/ AcceptOneRequest
    \/ HandleRequest
    \/ CollectBody
    \/ ReadKeyValue
    \/ SignAndSend
    \/ ForwardResponse

Spec == Init /\ [][Next]_vars

(***************************************************************************)
(* SpecAuth                                                                *)
(***************************************************************************)

InitAuth ==
    /\ authRules \in AuthorizationRulesSet(MaxRules)
    /\ authUrl \in Urls
    /\ authClaims \in ClaimsSet
    /\ authResult = None
    /\ authLog = {}
    /\ windows = FALSE
    /\ key = None
    /\ connection_count = u128_from(0)
    /\ accepted = 0
    /\ RequestIdle
    /\ LockIdle
    /\ ItemIdle
    /\ ListenerIdle
    /\ StateIdle
    /\ UserIdle
    /\ ConnIdle
    /\ IpIdle

Evaluate ==
    /\ authResult = None
    /\ LET r == is_allowed(authRules, authUrl, authClaims)
       IN  /\ authResult' = Some(r.allowed)
           /\ authLog' = r.log
    /\ UNCHANGED <<lockVars, itemVars, listenerVars, stateVars, userVars, authRules, authUrl, authClaims, processVars, requestVars,
                   connVars, ipVars>>

NextAuth == Evaluate

SpecAuth == InitAuth /\ [][NextAuth]_vars

(***************************************************************************)
(* redirector::ip_to_string and redirector::string_to_ip                   *)
(*                                                                         *)
(* A u32 is its four bytes, least significant first (as in the audit       *)
(* entry above), so that every 32-bit value can be written; u32 arithmetic *)
(* is done on the bytes with carry.  A String is a sequence of characters. *)
(***************************************************************************)

\* The u32 with the value n, for 0 <= n < 2^31.
U32(n) == <<n % 256, (n \div 256) % 256, (n \div 65536) % 256, n \div 16777216>>

\* let seg_number = 16 * 16;
seg_number == 16 * 16

\* ip % seg_number: the least significant byte.
U32RemSegNumber(ip) == ip[1]

\* ip / seg_number: the bytes moved down by one.
U32DivSegNumber(ip) == <<ip[2], ip[3], ip[4], 0>>

\* a < b for two u32.
U32Less(a, b) ==
    \E i \in 1..4 : a[i] < b[i] /\ \A j \in (i + 1)..4 : a[j] = b[j]

\* The carry into byte i when n * a is computed, and n * a (mod 2^32).
RECURSIVE MulCarryInto(_, _, _)
MulCarryInto(n, a, i) ==
    IF i = 1 THEN 0 ELSE (n * a[i - 1] + MulCarryInto(n, a, i - 1)) \div 256

U32Mul(n, a) == [i \in 1..4 |-> (n * a[i] + MulCarryInto(n, a, i)) % 256]

\* The carry into byte i when a + b is computed, and a + b (mod 2^32).
RECURSIVE AddCarryInto(_, _, _)
AddCarryInto(a, b, i) ==
    IF i = 1 THEN 0 ELSE (a[i - 1] + b[i - 1] + AddCarryInto(a, b, i - 1)) \div 256

U32Add(a, b) == [i \in 1..4 |-> (a[i] + b[i] + AddCarryInto(a, b, i)) % 256]

\* seg *= seg_number: 256 * a (mod 2^32) is a with its bytes moved up by one.
U32MulSegNumber(a) == <<0, a[1], a[2], a[3]>>

Digits == <<"0", "1", "2", "3", "4", "5", "6", "7", "8", "9">>

\* u32::to_string: the decimal digits, without leading zeros.
RECURSIVE to_string(_)
to_string(n) ==
    IF n < 10 THEN <<Digits[n + 1]>>
    ELSE to_string(n \div 10) \o <<Digits[(n % 10) + 1]>>

\* Mutant: the segments are written most significant byte first.
ip_to_string_msb_first(ip) ==
    to_string(ip[4]) \o <<".">> \o to_string(ip[3]) \o <<".">>
        \o to_string(ip[2]) \o <<".">> \o to_string(ip[1])

\* ip_to_string (lines 196-219)
ip_to_string(ip) ==
    LET seg1 == U32RemSegNumber(ip)
        ip2 == U32DivSegNumber(ip)
        seg2 == U32RemSegNumber(ip2)
        ip3 == U32DivSegNumber(ip2)
        seg3 == U32RemSegNumber(ip3)
        ip4 == U32DivSegNumber(ip3)
        seg4 == U32RemSegNumber(ip4)
    IN  to_string(seg1) \o <<".">> \o to_string(seg2) \o <<".">>
            \o to_string(seg3) \o <<".">> \o to_string(seg4)

\* str::split('.'): the pieces between the dots, empty ones included.
RECURSIVE split(_, _)
split(str, sep) ==
    IF \A i \in 1..Len(str) : str[i] # sep
    THEN <<str>>
    ELSE LET k == CHOOSE k \in 1..Len(str) :
                      str[k] = sep /\ \A j \in 1..(k - 1) : str[j] # sep
         IN  <<SubSeq(str, 1, k - 1)>> \o split(SubSeq(str, k + 1, Len(str)), sep)

DigitValue(c) == CHOOSE d \in 0..9 : Digits[d + 1] = c

\* Mutant: the digits are read without the check against u8::MAX.
RECURSIVE ParseDigits_unchecked(_, _)
ParseDigits_unchecked(cs, acc) ==
    IF cs = <<>> THEN Some(acc)
    ELSE ParseDigits_unchecked(Tail(cs), acc * 10 + DigitValue(cs[1]))

\* The value of a run of digits read from the left with checked
\* arithmetic: None as soon as it exceeds u8::MAX.
RECURSIVE ParseDigits(_, _)
ParseDigits(cs, acc) ==
    IF cs = <<>> THEN Some(acc)
    ELSE LET next == acc * 10 + DigitValue(cs[1])
         IN  IF next > 255 THEN None ELSE ParseDigits(Tail(cs), next)

\* str::parse::<u8>: an optional '+', then one or more digits, and a value
\* of at most 255; anything else is an error (None).
parse_u8(str) ==
    LET cs == IF str # <<>> /\ str[1] = "+" THEN Tail(str) ELSE str
    IN  IF cs = <<>> \/ \E i \in 1..Len(cs) : \A d \in 1..10 : Digits[d] # cs[i]
        THEN None
        ELSE ParseDigits(cs, 0)

\* The for loop of string_to_ip from segment i on (lines 231-247): None
\* stands for the `return 0` of a segment that does not parse.
RECURSIVE string_to_ip_loop(_, _, _, _)
string_to_ip_loop(ip_str_seg, i, ip, seg) ==
    IF i > Len(ip_str_seg) THEN ip
    ELSE LET n == parse_u8(ip_str_seg[i])
         IN  IF ~IsSome(n) THEN U32(0)
             ELSE string_to_ip_loop(ip_str_seg, i + 1,
                      U32Add(ip, U32Mul(Unwrap(n), seg)),
                      IF U32Less(seg, U32(16777216))
                      THEN U32MulSegNumber(seg)
                      ELSE seg)

\* string_to_ip (lines 221-250)
string_to_ip(ip_str) ==
    LET ip_str_seg == split(ip_str, ".")
    IN  IF Len(ip_str_seg) # 4 THEN U32(0)
        ELSE string_to_ip_loop(ip_str_seg, 1, U32(0), U32(1))

(***************************************************************************)
(* SpecListener: proxy_server::start (lines 75-172)                        *)
(***************************************************************************)

MaxAccepts == 3

\* What TcpListener::bind returns: the listener, or the kind of the io error.
BindResults == {"Ok", "AddrInUse", "PermissionDenied", "AddrNotAvailable"}

Ok(x) == Some([ok |-> TRUE, value |-> x])

Err(e) == Some([ok |-> FALSE, error |-> e])

\* Mutant: every bind error is retried.
MatchBind_retry_every_error(result) ==
    IF result = "Ok" THEN "return Ok" ELSE "continue"

\* The match of lines 82-105 on what bind returned inside the for loop.
MatchBind(result) ==
    CASE result = "Ok" -> "return Ok"
      [] result = "AddrInUse" -> "continue"
      [] OTHER -> "return Err"

\* Error::Io(format!("Failed to bind TcpListener '{}'", addr), e)
Error_Io(kind) == [message |-> "Failed to bind TcpListener '127.0.0.1:3080'", kind |-> kind]

\* e.to_string() of line 129
Error_to_string(e) == e.message \o ": " \o e.kind

\* Mutant: the status message keeps what it held before start.
BindFailureStatus_kept(e) == UNKNOWN_STATUS_MESSAGE

\* Lines 129-130: the message start stores when no listener was returned.
BindFailureStatus(e) == Error_to_string(e)

\* The message helpers::write_startup_event returns (line 144).
STARTED_MESSAGE == "Started proxy listener, ready to accept request"

InitListener ==
    /\ lpc = "bind"
    /\ retry_i = 0
    /\ bind_results = <<>>
    /\ listener = None
    /\ cancelled = FALSE
    /\ tasks = <<>>
    /\ accept_errors = 0
    /\ windows = FALSE
    /\ key = None
    /\ connection_count = u128_from(0)
    /\ accepted = 0
    /\ RequestIdle
    /\ LockIdle
    /\ ItemIdle
    /\ StateIdle
    /\ UserIdle
    /\ AuthIdle
    /\ ConnIdle
    /\ IpIdle

keeperFields == <<current_secure_channel_state, wireserver_rule_id, imds_rule_id,
                  key_keeper_shutdown, key_keeper_status_message>>

notListener == <<authVars, lockVars, itemVars, processVars, requestVars, connVars, ipVars, userVars>>

\* Lines 80-106: one pass of the for loop, entered with i < retry_count.
BindInLoop ==
    /\ lpc = "bind"
    /\ \E result \in BindResults :
          /\ bind_results' = Append(bind_results, result)
          /\ CASE MatchBind(result) = "return Ok" ->
                    /\ listener' = Ok(Len(bind_results'))
                    /\ lpc' = "match"
               [] MatchBind(result) = "continue" ->
                    /\ listener' = listener
                    /\ lpc' = "sleep"
               [] OTHER ->
                    /\ listener' = Err(Error_Io(result))
                    /\ lpc' = "match"
    /\ UNCHANGED <<retry_i, cancelled, tasks, accept_errors, stateVars, notListener>>

\* Lines 94-95 and 80: the sleep is over, `continue` takes the next i of
\* 0..retry_count or leaves the loop.
Sleep ==
    /\ lpc = "sleep"
    /\ retry_i' = retry_i + 1
    /\ lpc' = IF retry_i + 1 < START_LISTENER_RETRY_COUNT THEN "bind" ELSE "last bind"
    /\ UNCHANGED <<bind_results, listener, cancelled, tasks, accept_errors,
                   stateVars, notListener>>

\* Lines 108-111: one more bind, whose result is returned.
LastBind ==
    /\ lpc = "last bind"
    /\ \E result \in BindResults :
          /\ bind_results' = Append(bind_results, result)
          /\ listener' = IF result = "Ok" THEN Ok(Len(bind_results'))
                         ELSE Err(Error_Io(result))
    /\ lpc' = "match"
    /\ UNCHANGED <<retry_i, cancelled, tasks, accept_errors, stateVars, notListener>>

\* Lines 128-141: no listener; the error becomes the status message and
\* start returns.
StartFailed ==
    /\ lpc = "match"
    /\ ~Unwrap(listener).ok
    /\ proxy_listner_status_message' = BindFailureStatus(Unwrap(listener).error)
    /\ lpc' = "returned"
    /\ UNCHANGED <<retry_i, bind_results, listener, cancelled, tasks, accept_errors,
                   keeperFields, proxy_listner_shutdown, ret, notListener>>

\* Lines 127 and 144-153: the listener is bound; the status message says so
\* and the accept loop is entered.
StartListening ==
    /\ lpc = "match"
    /\ Unwrap(listener).ok
    /\ proxy_listner_status_message' = STARTED_MESSAGE
    /\ lpc' = "select"
    /\ UNCHANGED <<retry_i, bind_results, listener, cancelled, tasks, accept_errors,
                   keeperFields, proxy_listner_shutdown, ret, notListener>>

\* The token is cancelled by another task of the agent.
Cancel ==
    /\ ~cancelled
    /\ cancelled' = TRUE
    /\ UNCHANGED <<lpc, retry_i, bind_results, listener, tasks, accept_errors,
                   stateVars, notListener>>

\* Lines 157-160: select! takes the branch of cancellation_token.cancelled().
CancelBranch ==
    /\ lpc = "select"
    /\ cancelled
    /\ lpc' = "returned"
    /\ UNCHANGED <<retry_i, bind_results, listener, cancelled, tasks, accept_errors,
                   stateVars, notListener>>

\* Lines 161-165 and 175-244: select! takes the branch of listener.accept(),
\* which returned a connection; accept_one_request spawns the task serving
\* it and the loop goes on.  select! polls its branches in random order, so
\* this branch is taken when a connection waits, cancelled token or not.
AcceptConnection ==
    /\ lpc = "select"
    /\ Len(tasks) + accept_errors < MaxAccepts
    /\ tasks' = Append(tasks, "running")
    /\ UNCHANGED <<lpc, retry_i, bind_results, listener, cancelled, accept_errors,
                   stateVars, notListener>>

\* Mutant: a failed accept ends the loop.
AcceptError_returns ==
    /\ lpc = "select"
    /\ Len(tasks) + accept_errors < MaxAccepts
    /\ accept_errors' = accept_errors + 1
    /\ lpc' = "returned"
    /\ UNCHANGED <<retry_i, bind_results, listener, cancelled, tasks,
                   stateVars, notListener>>

\* Lines 166-168: listener.accept() returned an error, which is logged.
AcceptError ==
    /\ lpc = "select"
    /\ Len(tasks) + accept_errors < MaxAccepts
    /\ accept_errors' = accept_errors + 1
    /\ UNCHANGED <<lpc, retry_i, bind_results, listener, cancelled, tasks,
                   stateVars, notListener>>

\* Lines 185-243: a spawned task ends: serve_connection returned Ok
\* ("done"), or set_stream_read_time_out or serve_connection returned an
\* error, which is logged (lines 188-193 and 236-241, "failed"); no step of
\* start touches a JoinHandle, the tasks are detached.
TaskEnds(t) ==
    /\ t \in 1..Len(tasks)
    /\ tasks[t] = "running"
    /\ \E outcome \in {"done", "failed"} : tasks' = [tasks EXCEPT ![t] = outcome]
    /\ UNCHANGED <<lpc, retry_i, bind_results, listener, cancelled, accept_errors,
                   stateVars, notListener>>

StartSteps ==
    BindInLoop \/ Sleep \/ LastBind \/ StartFailed \/ StartListening \/ CancelBranch

(***************************************************************************)
(* SpecState: the wrappers of shared_state.rs, called one after the other. *)
(* Each wrapper locks the mutex for the whole of its body, so a call is    *)
(* one step.  What a call returns is the sequence of the components of its *)
(* return value: <<>> for (), <<b>> for a bool, <<b, s>> for (bool, String) *)
(***************************************************************************)

\* Mutant: the state given is stored and reported as a change always.
update_current_secure_channel_state_always(stored, state) ==
    [stored |-> state, result |-> <<TRUE>>]

\* key_keeper_wrapper::update_current_secure_channel_state (lines 89-100)
update_current_secure_channel_state(stored, state) ==
    IF stored = state
    THEN [stored |-> stored, result |-> <<FALSE>>]
    ELSE [stored |-> state, result |-> <<TRUE>>]

\* Mutant: the id given is returned as the previous one.
update_wireserver_rule_id_returns_new(stored, rule_id) ==
    [stored |-> rule_id, result |-> <<stored # rule_id, rule_id>>]

\* key_keeper_wrapper::update_wireserver_rule_id (lines 118-130)
update_wireserver_rule_id(stored, rule_id) ==
    LET old_rule_id == stored
    IN  IF old_rule_id = rule_id
        THEN [stored |-> stored, result |-> <<FALSE, old_rule_id>>]
        ELSE [stored |-> rule_id, result |-> <<TRUE, old_rule_id>>]

\* key_keeper_wrapper::update_imds_rule_id (lines 143-155)
update_imds_rule_id(stored, rule_id) ==
    LET old_rule_id == stored
    IN  IF old_rule_id = rule_id
        THEN [stored |-> stored, result |-> <<FALSE, old_rule_id>>]
        ELSE [stored |-> rule_id, result |-> <<TRUE, old_rule_id>>]

\* String::to_string of the stored message (lines 173-179 and 215-221)
get_status_message(stored) == stored

\* proxy_server::get_status (lines 60-72)
get_status(shutdown, stored) ==
    [status |-> IF shutdown THEN "STOPPED" ELSE "RUNNING",
     message |-> get_status_message(stored),
     states |-> None]

\* The string of n copies of the character c.
RECURSIVE Repeat(_, _)
Repeat(c, n) ==
    IF n = 0 THEN ""
    ELSE LET half == Repeat(c, n \div 2)
         IN  IF n % 2 = 0 THEN half \o half ELSE half \o half \o c

ChannelStates == {UNKNOWN_STATE, "Disabled", "WireServer"}

RuleIds == {"", "r1", "r2"}

\* Status messages a module sets: short ones, and error texts of 1024 and of
\* 1025 characters.
StatusMessages ==
    {STARTED_MESSAGE, "Found key details from local", Repeat("e", 1024), Repeat("e", 1025)}

Call(op, arg, result) == Some([op |-> op, arg |-> arg, result |-> result])

InitState ==
    /\ StateIdle
    /\ key \in {None} \cup {Some(k) : k \in Keys}
    /\ connection_count \in {u128_from(0), u128_from(7)}
    /\ windows = FALSE
    /\ accepted = 0
    /\ RequestIdle
    /\ LockIdle
    /\ ItemIdle
    /\ ListenerIdle
    /\ UserIdle
    /\ AuthIdle
    /\ ConnIdle
    /\ IpIdle

notState == <<authVars, lockVars, itemVars, processVars, requestVars, connVars, ipVars, listenerVars, userVars>>

UpdateCurrentSecureChannelState ==
    \E state \in ChannelStates :
        LET r == update_current_secure_channel_state(current_secure_channel_state, state)
        IN  /\ current_secure_channel_state' = r.stored
            /\ ret' = Call("update_current_secure_channel_state", state, r.result)
            /\ UNCHANGED <<wireserver_rule_id, imds_rule_id, key_keeper_shutdown,
                           key_keeper_status_message, proxy_listner_shutdown,
                           proxy_listner_status_message, notState>>

UpdateWireserverRuleId ==
    \E rule_id \in RuleIds :
        LET r == update_wireserver_rule_id(wireserver_rule_id, rule_id)
        IN  /\ wireserver_rule_id' = r.stored
            /\ ret' = Call("update_wireserver_rule_id", rule_id, r.result)
            /\ UNCHANGED <<current_secure_channel_state, imds_rule_id, key_keeper_shutdown,
                           key_keeper_status_message, proxy_listner_shutdown,
                           proxy_listner_status_message, notState>>

UpdateImdsRuleId ==
    \E rule_id \in RuleIds :
        LET r == update_imds_rule_id(imds_rule_id, rule_id)
        IN  /\ imds_rule_id' = r.stored
            /\ ret' = Call("update_imds_rule_id", rule_id, r.result)
            /\ UNCHANGED <<current_secure_channel_state, wireserver_rule_id,
                           key_keeper_shutdown, key_keeper_status_message,
                           proxy_listner_shutdown, proxy_listner_status_message, notState>>

\* key_keeper_wrapper::set_shutdown (lines 161-163)
KeyKeeperSetShutdown ==
    \E shutdown \in BOOLEAN :
        /\ key_keeper_shutdown' = shutdown
        /\ ret' = Call("key_keeper_wrapper::set_shutdown", shutdown, <<>>)
        /\ UNCHANGED <<current_secure_channel_state, wireserver_rule_id, imds_rule_id,
                       key_keeper_status_message, proxy_listner_shutdown,
                       proxy_listner_status_message, notState>>

\* key_keeper_wrapper::set_status_message (lines 169-171)
KeyKeeperSetStatusMessage ==
    \E status_message \in StatusMessages :
        /\ key_keeper_status_message' = status_message
        /\ ret' = Call("key_keeper_wrapper::set_status_message", status_message, <<>>)
        /\ UNCHANGED <<current_secure_channel_state, wireserver_rule_id, imds_rule_id,
                       key_keeper_shutdown, proxy_listner_shutdown,
                       proxy_listner_status_message, notState>>

\* key_keeper_wrapper::get_status_message (lines 173-179)
KeyKeeperGetStatusMessage ==
    /\ ret' = Call("key_keeper_wrapper::get_status_message", <<>>,
                   <<get_status_message(key_keeper_status_message)>>)
    /\ UNCHANGED <<current_secure_channel_state, wireserver_rule_id, imds_rule_id,
                   key_keeper_shutdown, key_keeper_status_message,
                   proxy_listner_shutdown, proxy_listner_status_message, notState>>

\* proxy_server::stop (lines 56-58)
Stop ==
    /\ proxy_listner_shutdown' = TRUE
    /\ ret' = Call("proxy_server::stop", <<>>, <<>>)
    /\ UNCHANGED <<keeperFields, proxy_listner_status_message, notState>>

\* proxy_listener_wrapper::set_status_message (lines 211-213)
ProxyListenerSetStatusMessage ==
    \E status_message \in StatusMessages :
        /\ proxy_listner_status_message' = status_message
        /\ ret' = Call("proxy_listener_wrapper::set_status_message", status_message, <<>>)
        /\ UNCHANGED <<keeperFields, proxy_listner_shutdown, notState>>

\* proxy_server::get_status (lines 60-72)
GetStatus ==
    /\ ret' = Call("proxy_server::get_status", <<>>,
                   <<get_status(proxy_listner_shutdown, proxy_listner_status_message)>>)
    /\ UNCHANGED <<keeperFields, proxy_listner_shutdown, proxy_listner_status_message,
                   notState>>

\* SpecListener: start and its tasks, and the two calls of proxy_server that
\* other tasks of the agent make while it runs, stop and get_status.
NextListener ==
    \/ StartSteps
    \/ Cancel
    \/ AcceptConnection
    \/ AcceptError
    \/ \E t \in 1..MaxAccepts : TaskEnds(t)
    \/ Stop
    \/ GetStatus

SpecListener == InitListener /\ [][NextListener]_vars

\* The runtime polls start whenever a future it awaits is ready (the bind,
\* the sleep of one second, a cancelled token), and polls every spawned task.
SpecListenerFair ==
    /\ SpecListener
    /\ WF_vars(StartSteps)
    /\ \A t \in 1..MaxAccepts : WF_vars(TaskEnds(t))

NextState ==
    \/ UpdateCurrentSecureChannelState
    \/ UpdateWireserverRuleId
    \/ UpdateImdsRuleId
    \/ KeyKeeperSetShutdown
    \/ KeyKeeperSetStatusMessage
    \/ KeyKeeperGetStatusMessage
    \/ Stop
    \/ ProxyListenerSetStatusMessage
    \/ GetStatus

SpecState == InitState /\ [][NextState]_vars

(***************************************************************************)
(* SpecUser: tasks calling proxy::get_user (proxy.rs 83-97) concurrently.  *)
(* The identity cache is kept by ProxyServerSharedState: a mapping from    *)
(* logon id to User behind a mutex, here the sequence of its entries.      *)
(***************************************************************************)

MaxCallers == 3

Callers == 1..MaxCallers

LogonIds == {0, 9}

\* What the host's lookup of a logon id returns at the time of a call.
HostLookups ==
    {None, Some([name |-> "test", groups |-> <<"grp">>]),
     Some([name |-> "test", groups |-> <<"grp", "admins">>])}

\* ProxyServerSharedState::get_user: the entry of the logon id, if any.
ProxyServerSharedState_get_user(cache, logon_id) ==
    IF \E n \in 1..Len(cache) : cache[n].logon_id = logon_id
    THEN Some(cache[CHOOSE n \in 1..Len(cache) : cache[n].logon_id = logon_id])
    ELSE None

\* ProxyServerSharedState::add_user: the user becomes the entry of its
\* logon id, in the place of the entry the id had.
ProxyServerSharedState_add_user(cache, user) ==
    IF \E n \in 1..Len(cache) : cache[n].logon_id = user.logon_id
    THEN [n \in 1..Len(cache) |->
             IF cache[n].logon_id = user.logon_id THEN user ELSE cache[n]]
    ELSE Append(cache, user)

\* ProxyServerSharedState::get_users_count
ProxyServerSharedState_get_users_count(cache) == Len(cache)

InitUser ==
    /\ windows \in BOOLEAN
    /\ users = <<>>
    /\ callers \in [Callers -> {[pc |-> "call", logon_id |-> l, looked |-> FALSE,
                                 found |-> None, user |-> None, after |-> {},
                                 result |-> None] : l \in LogonIds}]
    /\ key = None
    /\ connection_count = u128_from(0)
    /\ accepted = 0
    /\ RequestIdle
    /\ LockIdle
    /\ ItemIdle
    /\ ListenerIdle
    /\ StateIdle
    /\ AuthIdle
    /\ ConnIdle
    /\ IpIdle

notUser == <<authVars, lockVars, itemVars, processVars, requestVars, connVars, ipVars, listenerVars, stateVars>>

\* The calls that returned Ok so far.
Succeeded == {d \in Callers : IsSome(callers[d].result) /\ Unwrap(callers[d].result).ok}

\* Line 88: the cache is asked; on Ok(Some(user)) the call returns it
\* (line 89).  `after` notes which calls had succeeded when this call began.
CacheGet(c) ==
    /\ callers[c].pc = "call"
    /\ LET hit == ProxyServerSharedState_get_user(users, callers[c].logon_id)
           began == [callers[c] EXCEPT !.after = Succeeded]
       IN  callers' = [callers EXCEPT ![c] =
               IF IsSome(hit)
               THEN [began EXCEPT !.pc = "done", !.result = Ok(Unwrap(hit))]
               ELSE [began EXCEPT !.pc = "resolve"]]
    /\ UNCHANGED <<users, notUser>>

\* Line 91: User::from_logon_id(logon_id)?
Resolve(c) ==
    /\ callers[c].pc = "resolve"
    /\ \E found \in HostLookups :
          LET user == User_from_lookup(callers[c].logon_id, found)
          IN  callers' = [callers EXCEPT ![c] =
                  IF IsSome(user)
                  THEN [@ EXCEPT !.pc = "add", !.looked = TRUE, !.found = found,
                                 !.user = user]
                  ELSE [@ EXCEPT !.pc = "done", !.looked = TRUE, !.found = found,
                                 !.result = Err("get_user")]]
    /\ UNCHANGED <<users, notUser>>

\* Lines 92-95: add_user(user.clone()), then Ok(user).
AddUser(c) ==
    /\ callers[c].pc = "add"
    /\ users' = ProxyServerSharedState_add_user(users, Unwrap(callers[c].user))
    /\ callers' = [callers EXCEPT ![c].pc = "done", ![c].result = Ok(Unwrap(callers[c].user))]
    /\ UNCHANGED notUser

NextUser == \E c \in Callers : CacheGet(c) \/ Resolve(c) \/ AddUser(c)

SpecUser == InitUser /\ [][NextUser]_vars

(***************************************************************************)
(* SpecItem: AuthorizationRules::from_authorization_item (lines 45-106)    *)
(***************************************************************************)

\* Mutant: every defined item is pushed, named or not.
RECURSIVE PushNamed_all(_, _)
PushNamed_all(names, defined) == defined

\* Lines 59-65 and 77-83: for every name of the list, in order, the defined
\* items (privileges or identities) of that name are pushed.
RECURSIVE PushNamed(_, _)
PushNamed(names, defined) ==
    IF names = <<>> THEN <<>>
    ELSE SelectSeq(defined, LAMBDA d : d.name = names[1])
             \o PushNamed(Tail(names), defined)

\* Lines 57-67: the privileges named by the roles called role_name.
RECURSIVE PrivilegesOfRoles(_, _, _)
PrivilegesOfRoles(roles, role_name, input_privileges) ==
    IF roles = <<>> THEN <<>>
    ELSE (IF roles[1].name = role_name
          THEN PushNamed(roles[1].privileges, input_privileges)
          ELSE <<>>)
             \o PrivilegesOfRoles(Tail(roles), role_name, input_privileges)

\* Lines 50-93: the Rule of one role assignment.
RuleOfAssignment(access_control_rules, role_assignment) ==
    LET role_name == role_assignment.role
        privileges ==
            IF IsSome(access_control_rules.privileges) /\ IsSome(access_control_rules.roles)
            THEN PrivilegesOfRoles(Unwrap(access_control_rules.roles), role_name,
                                   Unwrap(access_control_rules.privileges))
            ELSE <<>>
        identities ==
            IF IsSome(access_control_rules.identities)
            THEN PushNamed(role_assignment.identities,
                           Unwrap(access_control_rules.identities))
            ELSE <<>>
    IN  [roleName |-> role_name, privileges |-> privileges, identities |-> identities]

\* Mutant: defaultAccess is compared as it was written.
from_authorization_item_case_sensitive(authorization_item) ==
    [defaultAllowed |-> authorization_item.defaultAccess = "allow",
     mode |-> ToLower(authorization_item.mode),
     rules |-> None]

\* AuthorizationRules::from_authorization_item (lines 45-106)
from_authorization_item(authorization_item) ==
    LET rules ==
            IF ~IsSome(authorization_item.rules) THEN None
            ELSE LET access_control_rules == Unwrap(authorization_item.rules)
                 IN  IF ~IsSome(access_control_rules.roleAssignments) THEN None
                     ELSE LET role_assignments ==
                                  Unwrap(access_control_rules.roleAssignments)
                          IN  Some([k \in 1..Len(role_assignments) |->
                                       RuleOfAssignment(access_control_rules,
                                                        role_assignments[k])])
    IN  [defaultAllowed |-> ToLower(authorization_item.defaultAccess) = "allow",
         mode |-> ToLower(authorization_item.mode),
         rules |-> rules]

\* A second privilege called "pt", as an authoring error leaves it.
PrivT2 == [name |-> "pt", path |-> PathO, queryParameters |-> None]

InputPrivileges == {None, Some(<<>>), Some(<<PrivT>>), Some(<<PrivOQ, PrivT, PrivT2>>)}

InputIdentities == {None, Some(<<IdUser>>), Some(<<IdGroupExe, IdUser>>)}

InputRoles ==
    {None,
     Some(<<[name |-> "r", privileges |-> <<"pt", "unknown">>]>>),
     Some(<<[name |-> "r", privileges |-> <<"poq">>],
            [name |-> "s", privileges |-> <<"pt">>],
            [name |-> "r", privileges |-> <<"pt">>]>>)}

InputRoleAssignments ==
    {None, Some(<<>>),
     Some(<<[role |-> "r", identities |-> <<"iu", "nobody">>]>>),
     Some(<<[role |-> "s", identities |-> <<"ige">>],
            [role |-> "missing", identities |-> <<"iu">>],
            [role |-> "r", identities |-> <<"iu", "ige">>]>>)}

AccessControlRulesSet ==
    [privileges : InputPrivileges, identities : InputIdentities,
     roles : InputRoles, roleAssignments : InputRoleAssignments]

DefaultAccesses == {"allow", "Allow", "ALLOW", "deny", "Deny", "allowed", ""}

InputModes == {"enforce", "Enforce", "AUDIT", "Disabled"}

AuthorizationItems ==
    [defaultAccess : DefaultAccesses, mode : InputModes,
     rules : {None} \cup {Some(r) : r \in AccessControlRulesSet}, id : {"0"}]

InitItem ==
    /\ itemIn \in {Some(item) : item \in AuthorizationItems}
    /\ itemOut = None
    /\ windows = FALSE
    /\ key = None
    /\ connection_count = u128_from(0)
    /\ accepted = 0
    /\ RequestIdle
    /\ LockIdle
    /\ ListenerIdle
    /\ StateIdle
    /\ UserIdle
    /\ AuthIdle
    /\ ConnIdle
    /\ IpIdle

Compile ==
    /\ IsSome(itemIn)
    /\ itemOut = None
    /\ itemOut' = Some(from_authorization_item(Unwrap(itemIn)))
    /\ UNCHANGED <<authVars, lockVars, processVars, requestVars, connVars, ipVars,
                   listenerVars, stateVars, userVars, itemIn>>

NextItem == Compile

SpecItem == InitItem /\ [][NextItem]_vars

(***************************************************************************)
(* SpecConn: tasks serving connections call increase_connection_count      *)
(* (handle_request, lines 285-286) concurrently                            *)
(***************************************************************************)

MaxHandlers == 3

Handlers == 1..MaxHandlers

\* Counts the shared state may hold when the tasks start: the initial 0,
\* counts whose increment carries into the next limbs, and the last ones
\* before the count wraps.
CountInputs ==
    {u128_from(0), u128_from(LIMB - 1),
     [i \in 1..U128_LIMBS |-> IF i <= 2 THEN LIMB - 1 ELSE 0],
     [i \in 1..U128_LIMBS |-> IF i < U128_LIMBS THEN LIMB - 1 ELSE 0],
     [i \in 1..U128_LIMBS |-> IF i = 1 THEN LIMB - 2 ELSE LIMB - 1],
     U128_MAX}

InitConn ==
    /\ connection_count \in CountInputs
    /\ handlers = [h \in Handlers |-> [pc |-> "start", prev |-> None, id |-> None]]
    /\ mutex = None
    /\ windows = FALSE
    /\ key = None
    /\ accepted = 0
    /\ RequestIdle
    /\ LockIdle
    /\ ItemIdle
    /\ ListenerIdle
    /\ StateIdle
    /\ UserIdle
    /\ AuthIdle
    /\ IpIdle

\* Line 202: let mut state = shared_state.lock().unwrap();
Lock(h) ==
    /\ handlers[h].pc = "start"
    /\ CanLock(mutex)
    /\ mutex' = Some(h)
    /\ handlers' = [handlers EXCEPT ![h].pc = "locked"]
    /\ UNCHANGED <<authVars, lockVars, itemVars, listenerVars, stateVars, userVars, processVars, requestVars, ipVars>>

\* Line 203: (state.connection_count, _) = state.connection_count.overflowing_add(1);
Add(h) ==
    /\ handlers[h].pc = "locked"
    /\ connection_count' = increase_connection_count(connection_count)
    /\ handlers' = [handlers EXCEPT ![h].pc = "added",
                                    ![h].prev = Some(connection_count)]
    /\ UNCHANGED <<authVars, lockVars, itemVars, listenerVars, stateVars, userVars, windows, key, accepted, requestVars, mutex, ipVars>>

\* Line 204: state.connection_count is returned and the guard is dropped;
\* the value becomes the connection id (proxy_server.rs 285-286).
Return(h) ==
    /\ handlers[h].pc = "added"
    /\ handlers' = [handlers EXCEPT ![h].pc = "handle",
                                    ![h].id = Some(connection_count)]
    /\ mutex' = None
    /\ UNCHANGED <<authVars, lockVars, itemVars, listenerVars, stateVars, userVars, processVars, requestVars, ipVars>>

NextConn == \E h \in Handlers : Lock(h) \/ Add(h) \/ Return(h)

SpecConn == InitConn /\ [][NextConn]_vars

(***************************************************************************)
(* SpecLock: tasks of the agent (the handlers of requests, the key keeper)  *)
(* call concurrently the functions that take a mutex: the wrappers of the   *)
(* shared state (shared_state.rs 58-76, 118-155), redirector::lookup_audit  *)
(* (redirector.rs 271-280) and the Windows fallback of handle_request       *)
(* (proxy_server.rs 321-337).  A call is followed statement by statement.   *)
(***************************************************************************)

MaxTasks == 3

MaxCalls == 3

Tasks == 1..MaxTasks

SHARED_STATE == "shared_state"

BPF_OBJECT == "bpf_object"

StreamNames == <<"stream-1", "stream-2", "stream-3", "stream-4", "stream-5">>

\* proxy_server.rs line 196: every connection has a mutex of its own around
\* its stream; a connection is served by one task.
StreamOf(t) == StreamNames[t]

Mutexes == {SHARED_STATE, BPF_OBJECT} \cup {StreamOf(t) : t \in Tasks}

SharedStateCalls ==
    {"set_key", "clear_key", "get_key", "update_wireserver_rule_id",
     "update_imds_rule_id"}

\* Mutant: every task locks a mutex of its own.
MutexOf_own(op, t) == StreamOf(t)

\* The mutex a call locks: shared_state.lock() in the wrappers,
\* bpf_object.lock() in lookup_audit (line 276), connection.stream.lock() in
\* the Windows fallback (proxy_server.rs line 323).
MutexOf(op, t) ==
    CASE op \in SharedStateCalls -> SHARED_STATE
      [] op = "lookup_audit" -> BPF_OBJECT
      [] op = "get_audit_from_stream_socket" -> StreamOf(t)

\* Mutant: the guard is not dropped.
Unlock_forgotten(held, m) == held

\* The MutexGuard is dropped: at the end of the statement or of the function
\* that took it.
Unlock(held, m) == [held EXCEPT ![m] = None]

IdleWorker == [pc |-> "idle", op |-> "", arg |-> <<>>, old |-> None, result |-> None]

\* The mutexes a task holds.
Held(t) == {m \in Mutexes : locks[m] = Some(t)}

InitLock ==
    /\ locks = [m \in Mutexes |-> None]
    /\ workers = [t \in Tasks |-> IdleWorker]
    /\ calls = 0
    /\ key = None
    /\ windows = FALSE
    /\ connection_count = u128_from(0)
    /\ accepted = 0
    /\ StateIdle
    /\ RequestIdle
    /\ ItemIdle
    /\ ListenerIdle
    /\ UserIdle
    /\ AuthIdle
    /\ ConnIdle
    /\ IpIdle

notLock == <<authVars, itemVars, requestVars, connVars, ipVars, listenerVars, userVars,
             windows, connection_count, accepted, current_secure_channel_state,
             key_keeper_shutdown, key_keeper_status_message, proxy_listner_shutdown,
             proxy_listner_status_message, ret>>

sharedFields == <<key, wireserver_rule_id, imds_rule_id>>

ReturnedWith(t, result) ==
    [workers EXCEPT ![t].pc = "returned", ![t].result = Some(result)]

\* A task that is in no call calls one of the functions.
Begin(t, op, arg) ==
    /\ workers[t].pc \in {"idle", "returned"}
    /\ calls < MaxCalls
    /\ calls' = calls + 1
    /\ workers' = [workers EXCEPT ![t] =
                     [pc |-> IF op = "lookup_audit" THEN "get_bpf_object" ELSE "lock",
                      op |-> op, arg |-> arg, old |-> None, result |-> None]]
    /\ UNCHANGED <<locks, sharedFields, notLock>>

\* redirector.rs lines 275-279: the BPF object is asked of the redirector's
\* state, with no mutex; without one lookup_audit returns an error.
GetBpfObject(t) ==
    /\ workers[t].pc = "get_bpf_object"
    /\ \E found \in BOOLEAN :
          workers' = IF found THEN [workers EXCEPT ![t].pc = "lock"]
                     ELSE ReturnedWith(t, Err("GetBpfObject"))
    /\ UNCHANGED <<locks, calls, sharedFields, notLock>>

\* Mutex::lock: the task waits until no task holds the mutex and takes it.
LockMutex(t) ==
    LET m == MutexOf(workers[t].op, t)
    IN  /\ workers[t].pc = "lock"
        /\ CanLock(locks[m])
        /\ locks' = [locks EXCEPT ![m] = Some(t)]
        /\ workers' = [workers EXCEPT ![t].pc = "locked"]
        /\ UNCHANGED <<calls, sharedFields, notLock>>

\* shared_state.rs lines 58-68: set_key, clear_key and get_key read or assign
\* the field in the statement that locked; the guard is dropped with it.
AccessKey(t) ==
    /\ workers[t].pc = "locked"
    /\ workers[t].op \in {"set_key", "clear_key", "get_key"}
    /\ key' = CASE workers[t].op = "set_key" -> Some(workers[t].arg)
                [] workers[t].op = "clear_key" -> None
                [] workers[t].op = "get_key" -> key
    /\ workers' = ReturnedWith(t, IF workers[t].op = "get_key" THEN <<key>> ELSE <<>>)
    /\ locks' = Unlock(locks, SHARED_STATE)
    /\ UNCHANGED <<calls, wireserver_rule_id, imds_rule_id, notLock>>

\* shared_state.rs lines 123 and 148: let old_rule_id = state.<field>.clone();
CloneOldRuleId(t) ==
    /\ workers[t].pc = "locked"
    /\ workers[t].op \in {"update_wireserver_rule_id", "update_imds_rule_id"}
    /\ workers' = [workers EXCEPT
                     ![t].pc = "cloned",
                     ![t].old = Some(IF workers[t].op = "update_wireserver_rule_id"
                                     THEN wireserver_rule_id ELSE imds_rule_id)]
    /\ UNCHANGED <<locks, calls, sharedFields, notLock>>

\* shared_state.rs lines 124-129 and 149-154: old_rule_id is compared with
\* rule_id, the field is assigned when they differ, (changed, old_rule_id) is
\* returned and the guard is dropped.
CompareAndAssign(t) ==
    /\ workers[t].pc = "cloned"
    /\ LET w == workers[t]
           r == IF w.op = "update_wireserver_rule_id"
                THEN update_wireserver_rule_id(Unwrap(w.old), w.arg)
                ELSE update_imds_rule_id(Unwrap(w.old), w.arg)
       IN  /\ IF r.result[1]
              THEN IF w.op = "update_wireserver_rule_id"
                   THEN wireserver_rule_id' = r.stored /\ UNCHANGED imds_rule_id
                   ELSE imds_rule_id' = r.stored /\ UNCHANGED wireserver_rule_id
              ELSE UNCHANGED <<wireserver_rule_id, imds_rule_id>>
           /\ workers' = ReturnedWith(t, r.result)
    /\ locks' = Unlock(locks, SHARED_STATE)
    /\ UNCHANGED <<calls, key, notLock>>

\* redirector.rs line 276: bpf_object.lock().unwrap().lookup_audit(source_port):
\* the map of the BPF object is read under the guard, which is dropped when
\* the function returns.
LookupAudit(t) ==
    /\ workers[t].pc = "locked"
    /\ workers[t].op = "lookup_audit"
    /\ \E result \in {Ok("entry"), Err("LookupAudit")} :
          workers' = ReturnedWith(t, result)
    /\ locks' = Unlock(locks, BPF_OBJECT)
    /\ UNCHANGED <<calls, sharedFields, notLock>>

\* proxy_server.rs lines 321-337: the guard of connection.stream lives in the
\* scrutinee of the match: redirector::get_audit_from_stream_socket runs and
\* the arm is taken (the entry is kept, or the failure is logged) before it
\* is dropped.
GetAuditFromStreamSocket(t) ==
    /\ workers[t].pc = "locked"
    /\ workers[t].op = "get_audit_from_stream_socket"
    /\ \E result \in {Ok("entry"), Err("WindowsApi")} :
          workers' = ReturnedWith(t, result)
    /\ locks' = Unlock(locks, StreamOf(t))
    /\ UNCHANGED <<calls, sharedFields, notLock>>

BeginAny(t) ==
    \/ \E k \in Keys : Begin(t, "set_key", k)
    \/ \E op \in {"clear_key", "get_key", "get_audit_from_stream_socket"} :
          Begin(t, op, <<>>)
    \/ \E rule_id \in RuleIds : Begin(t, "update_wireserver_rule_id", rule_id)
    \/ \E rule_id \in RuleIds \ {"r2"} : Begin(t, "update_imds_rule_id", rule_id)
    \/ Begin(t, "lookup_audit", 50000)

NextLock ==
    \E t \in Tasks :
        \/ BeginAny(t)
        \/ GetBpfObject(t)
        \/ LockMutex(t)
        \/ AccessKey(t)
        \/ CloneOldRuleId(t)
        \/ CompareAndAssign(t)
        \/ LookupAudit(t)
        \/ GetAuditFromStreamSocket(t)

SpecLock == InitLock /\ [][NextLock]_vars

(***************************************************************************)
(* SpecIp: ip_to_string applied to a u32, string_to_ip applied to a string *)
(***************************************************************************)

\* The values a byte of the u32 takes: one, two and three digits, and the
\* bytes of the wire server's and the loopback address.
ByteInputs == {0, 1, 9, 10, 63, 99, 100, 127, 129, 16, 168, 255}

IpInputs == {<<a, b, c, d>> : a \in ByteInputs, b \in ByteInputs,
                               c \in ByteInputs, d \in ByteInputs}

\* Strings given to string_to_ip that ip_to_string does not produce.
IpStrings ==
    {<<"1", "2", "7", "0", ".", "0", ".", "0", ".", "1">>,
     <<"1", "2", "7", "0", ".", "0", ".", "1">>,
     <<"2", "5", "6", ".", "0", ".", "0", ".", "1">>,
     <<"1", ".", "2", ".", "3", ".", "4", ".", "5">>,
     <<"1", ".", ".", "3", ".", "4">>,
     <<"0", "0", "7", ".", "+", "1", ".", "0", ".", "1">>,
     <<"a", ".", "0", ".", "0", ".", "1">>,
     <<"1", ".", "2", ".", "3", ".", "-", "4">>,
     <<"1", ".", "2", ".", "3", ".", "4", ".">>,
     <<"1", ".", "2", ".", "3", ".", " ", "4">>,
     <<"1", ".", "2", ".", "3">>,
     <<"2", "5", "5", ".", "2", "5", "5", ".", "2", "5", "5", ".", "2", "5", "6">>,
     <<"0", ".", "0", ".", "0", ".", "9", "9", "9">>,
     <<>>}

InitIp ==
    /\ \/ ipIn \in {Some(x) : x \in IpInputs} /\ ipStr = None
       \/ ipIn = None /\ ipStr \in {Some(str) : str \in IpStrings}
    /\ ipOut = None
    /\ windows = FALSE
    /\ key = None
    /\ connection_count = u128_from(0)
    /\ accepted = 0
    /\ RequestIdle
    /\ LockIdle
    /\ ItemIdle
    /\ ListenerIdle
    /\ StateIdle
    /\ UserIdle
    /\ AuthIdle
    /\ ConnIdle

IpToString ==
    /\ IsSome(ipIn)
    /\ ipStr = None
    /\ ipStr' = Some(ip_to_string(Unwrap(ipIn)))
    /\ UNCHANGED <<authVars, lockVars, itemVars, listenerVars, stateVars, userVars, processVars, requestVars, connVars, ipIn, ipOut>>

StringToIp ==
    /\ IsSome(ipStr)
    /\ ipOut = None
    /\ ipOut' = Some(string_to_ip(Unwrap(ipStr)))
    /\ UNCHANGED <<authVars, lockVars, itemVars, listenerVars, stateVars, userVars, processVars, requestVars, connVars, ipIn, ipStr>>

NextIp == IpToString \/ StringToIp

SpecIp == InitIp /\ [][NextIp]_vars

(***************************************************************************)
(* Claims about is_allowed (checked under SpecAuth)                        *)
(***************************************************************************)

\* The list of rules of R (empty when R.rules is None).
RuleList(R) == IF IsSome(R.rules) THEN Unwrap(R.rules) ELSE <<>>

\* Some privilege of some rule of R matches u.
SomePrivilegeMatches(R, u) ==
    \E r \in 1..Len(RuleList(R)) :
        \E p \in 1..Len(RuleList(R)[r].privileges) :
            PrivilegeIsMatch(RuleList(R)[r].privileges[p], u)

\* Some identity of some rule of R matches c.
SomeIdentityMatches(R, c) ==
    \E r \in 1..Len(RuleList(R)) :
        \E i \in 1..Len(RuleList(R)[r].identities) :
            IdentityIsMatch(RuleList(R)[r].identities[i], c)

\* Rule k of R has a privilege matching u and an identity matching c.
RuleGrants(R, k, u, c) ==
    /\ \E p \in 1..Len(RuleList(R)[k].privileges) :
          PrivilegeIsMatch(RuleList(R)[k].privileges[p], u)
    /\ \E i \in 1..Len(RuleList(R)[k].identities) :
          IdentityIsMatch(RuleList(R)[k].identities[i], c)

Returned == IsSome(authResult)

\* C1: for rules whose mode is "disabled", is_allowed returns true for every
\* URL and every claims value, whatever defaultAllowed and the rules are.
C1_DisabledAllows ==
    (Returned /\ authRules.mode = "disabled") => authResult = Some(TRUE)

\* C1 witness: disabled rules that deny by default and hold a matching
\* privilege without any matching identity have returned true.
C1_Witness ==
    /\ Returned
    /\ authRules.mode = "disabled"
    /\ ~authRules.defaultAllowed
    /\ SomePrivilegeMatches(authRules, authUrl)
    /\ ~SomeIdentityMatches(authRules, authClaims)
    /\ authResult = Some(TRUE)

\* C2 as stated: whenever some privilege matches u and no identity matches
\* c, is_allowed returns false (for any rules, any mode).
C2_Original ==
    (/\ Returned
     /\ SomePrivilegeMatches(authRules, authUrl)
     /\ ~SomeIdentityMatches(authRules, authClaims)) => authResult = Some(FALSE)

\* C2 amended: for rules whose mode is not "disabled", when some privilege
\* matches u and no identity matches c, is_allowed returns false, whatever
\* defaultAllowed is.
C2_ExplicitDeny ==
    (/\ Returned
     /\ authRules.mode # "disabled"
     /\ SomePrivilegeMatches(authRules, authUrl)
     /\ ~SomeIdentityMatches(authRules, authClaims)) => authResult = Some(FALSE)

\* C2 witness: enforce rules that allow by default have denied a request
\* whose privilege matched while no identity did.
C2_Witness ==
    /\ Returned
    /\ authRules.mode = "enforce"
    /\ authRules.defaultAllowed
    /\ SomePrivilegeMatches(authRules, authUrl)
    /\ ~SomeIdentityMatches(authRules, authClaims)
    /\ authResult = Some(FALSE)

\* C3 as stated: whenever no privilege matches u, is_allowed returns
\* defaultAllowed (for any rules, any mode).
C3_Original ==
    (Returned /\ ~SomePrivilegeMatches(authRules, authUrl))
        => authResult = Some(authRules.defaultAllowed)

\* C3 amended: for rules whose mode is not "disabled", when no privilege
\* matches u (also when there are no rules at all), is_allowed returns
\* defaultAllowed for every claims value.
C3_FallsBackToDefault ==
    (/\ Returned
     /\ authRules.mode # "disabled"
     /\ ~SomePrivilegeMatches(authRules, authUrl))
        => authResult = Some(authRules.defaultAllowed)

\* C3 witness: rules that allow by default, with a rule whose identity
\* matches the claims but no privilege matching the URL, have returned true.
C3_Witness ==
    /\ Returned
    /\ authRules.mode = "audit"
    /\ authRules.defaultAllowed
    /\ Len(RuleList(authRules)) > 0
    /\ ~SomePrivilegeMatches(authRules, authUrl)
    /\ SomeIdentityMatches(authRules, authClaims)
    /\ authResult = Some(TRUE)

\* C4: in mode "enforce", is_allowed returns true whenever some rule has a
\* privilege matching the URL and an identity matching the claims, wherever
\* the rule stands in the list.
C4_AnyGrantingRuleAllows ==
    (/\ Returned
     /\ authRules.mode = "enforce"
     /\ \E k \in 1..Len(RuleList(authRules)) :
           RuleGrants(authRules, k, authUrl, authClaims)) => authResult = Some(TRUE)

\* C4 witness: the granting rule is the second one, behind a rule whose
\* privilege matches but which has no matching identity; the default is deny.
C4_Witness ==
    /\ Returned
    /\ authRules.mode = "enforce"
    /\ ~authRules.defaultAllowed
    /\ Len(RuleList(authRules)) = 2
    /\ \E p \in 1..Len(RuleList(authRules)[1].privileges) :
          PrivilegeIsMatch(RuleList(authRules)[1].privileges[p], authUrl)
    /\ ~RuleGrants(authRules, 1, authUrl, authClaims)
    /\ RuleGrants(authRules, 2, authUrl, authClaims)
    /\ authResult = Some(TRUE)

(***************************************************************************)
(* Claims about the request path (checked under Spec)                      *)
(***************************************************************************)

Done == pc = "done"

Status == Unwrap(response).status

\* The request was handed to hyper_client::send_request.
Forwarded == upstream # <<>>

\* The claims of a summary are those of Claims::empty().
SentinelSummary(sum) ==
    /\ sum.userId = Claims_empty.userId
    /\ sum.userName = EMPTY
    /\ sum.userGroups = <<>>
    /\ sum.clientIp = EMPTY
    /\ sum.processFullPath = EMPTY
    /\ sum.processCmdLine = EMPTY
    /\ sum.runAsElevated = FALSE

C6_Original ==
    (Done /\ ~IsSome(audit)) =>
        /\ Status = MISDIRECTED_REQUEST
        /\ IsSome(summary)
        /\ SentinelSummary(Unwrap(summary))

\* C6 amended: every request that passes the body-limit layer, is not the
\* provisioning check and for which no audit entry is found (by the lookup
\* by source port nor, on Windows, from the socket) is answered 421, and a
\* summary with the Claims::empty values and status 421 is emitted.
C6_MisdirectedWithoutAudit ==
    (/\ pc # "handle"
     /\ IsSome(connection)
     /\ Unwrap(connection).url # PROVISION_URL_PATH
     /\ ~IsSome(LookupEntry(audit, socket_audit))) =>
        /\ Done
        /\ Status = MISDIRECTED_REQUEST
        /\ ~Forwarded
        /\ IsSome(summary)
        /\ SentinelSummary(Unwrap(summary))
        /\ Unwrap(summary).responseStatus = MISDIRECTED_REQUEST
        /\ Unwrap(summary).id = Unwrap(connection).id

\* C6 witness: a request without an audit entry was answered 421 and its
\* summary was emitted.
C6_Witness ==
    /\ Done
    /\ IsSome(connection)
    /\ ~IsSome(audit)
    /\ ~IsSome(socket_audit)
    /\ Status = MISDIRECTED_REQUEST
    /\ IsSome(summary)
    /\ Unwrap(summary).userName = EMPTY

\* C7: a request is forwarded only if an audit entry was found, claims were
\* built and the authorization of this request with these claims returned
\* allow; a denied request is answered 403 and is not forwarded.
C7_ForwardOnlyIfAuthorized ==
    /\ Forwarded =>
          /\ IsSome(entry)
          /\ IsSome(connection) /\ IsSome(Unwrap(connection).claims)
          /\ IsSome(authz)
          /\ Unwrap(authz).allowed
          /\ Unwrap(authz).request_url = Unwrap(request).url
          /\ Unwrap(authz).claims = Unwrap(Unwrap(connection).claims)
    /\ (IsSome(authz) /\ ~Unwrap(authz).allowed) =>
          /\ Done
          /\ Status = FORBIDDEN
          /\ ~Forwarded

\* C7 witness: a request denied by enforce rules was answered 403 without
\* being forwarded.
C7_Witness ==
    /\ Done
    /\ IsSome(entry)
    /\ IsSome(authz)
    /\ Unwrap(authz).rules.mode = "enforce"
    /\ ~Unwrap(authz).allowed
    /\ Status = FORBIDDEN
    /\ ~Forwarded

\* C8: every request whose Content-Length exceeds 100 KiB and whose
\* (method, path) is not whitelisted is answered 413 (by the body-limit
\* layer, before handle_request runs), whatever the audit table holds.
C8_LargeContentLengthRejected ==
    (/\ IsSome(request)
     /\ IsSome(Unwrap(request).content_length)
     /\ Unwrap(Unwrap(request).content_length) > REQUEST_BODY_LOW_LIMIT_SIZE
     /\ ~should_skip_sig(Unwrap(request).method, Unwrap(request).url)) =>
        /\ Done
        /\ Status = PAYLOAD_TOO_LARGE
        /\ ~IsSome(connection)
        /\ ~Forwarded

\* C8 witness: a POST announcing 100 KiB + 1 bytes, from a connection that
\* has an audit entry, was answered 413.
C8_Witness ==
    /\ Done
    /\ IsSome(audit)
    /\ Unwrap(request).method = "POST"
    /\ Unwrap(request).content_length = Some(REQUEST_BODY_LOW_LIMIT_SIZE + 1)
    /\ Status = PAYLOAD_TOO_LARGE

\* The body of the request was read: by body.collect() in
\* handle_request_with_signature, or streamed to the host.
BodyWasRead ==
    \/ "Failed to receive the request body" \in log
    \/ "Received the client request body" \in log
    \/ Forwarded

\* C9: a request whose body exceeds the applicable ceiling (100 KiB, or
\* 100 MiB when whitelisted) is answered 413 also when the excess is found
\* only while the body is read.
C9_Original ==
    (/\ Done
     /\ BodyWasRead
     /\ Unwrap(request).body_len >
            BodyLimit(Unwrap(request).method, Unwrap(request).url)) =>
        Status = PAYLOAD_TOO_LARGE

\* C10: every request that has its response has had a ProxySummary emitted
\* for it, with the status of the response.
C10_Original ==
    Done =>
        /\ IsSome(summary)
        /\ Unwrap(summary).responseStatus = Status

\* The host answered and its response was mirrored to the client.
SuccessfulForward == Done /\ IsSome(host_response)

\* C11: for every successful forward the client response carries exactly
\* one x-ms-azure-host-authorization header, with the value "value", also
\* when the response of the host held headers of that name.
C11_OneProvenanceHeader ==
    SuccessfulForward =>
        HeaderValues(Unwrap(response).headers, AUTHORIZATION_HEADER) = <<"value">>

\* C11 witness: the response of the host held two headers of the name; the
\* client response holds the one with the value "value".
C11_Witness ==
    /\ SuccessfulForward
    /\ Len(HeaderValues(Unwrap(host_response).headers, AUTHORIZATION_HEADER)) = 2
    /\ HeaderValues(Unwrap(response).headers, AUTHORIZATION_HEADER) = <<"value">>

\* The headers of a map whose name is not the given one, in order.
OtherHeaders(headers, name) == SelectSeq(headers, LAMBDA h : h[1] # name)

\* C18: for every successful forward the client response has the status of
\* the host's response and its body unchanged and in the same order; the
\* inserted provenance header is the only difference between the two.
C18_Original ==
    SuccessfulForward =>
        /\ Unwrap(response).status = Unwrap(host_response).status
        /\ Unwrap(response).body = Unwrap(host_response).body
        /\ OtherHeaders(Unwrap(response).headers, AUTHORIZATION_HEADER)
             = OtherHeaders(Unwrap(host_response).headers, AUTHORIZATION_HEADER)

\* The request was sent to the host and hyper_client::send_request
\* returned an error.
UpstreamFailed == Done /\ Forwarded /\ ~IsSome(host_response)

\* C14: when the request to the host fails the client is answered 503 and
\* a summary with that status is emitted; at most one request is sent to
\* the host for one client request.
C14_UpstreamFailure ==
    /\ Len(upstream) <= 1
    /\ UpstreamFailed =>
          /\ Status = SERVICE_UNAVAILABLE
          /\ IsSome(summary)
          /\ Unwrap(summary).responseStatus = SERVICE_UNAVAILABLE
          /\ "Failed to send request to host" \in log

\* C14 witness: a signed request was sent once, the send failed and the
\* client was answered 503.
C14_Witness ==
    /\ UpstreamFailed
    /\ Len(upstream) = 1
    /\ IsSome(AuthorizationHeader(upstream[1].request))
    /\ Status = SERVICE_UNAVAILABLE
    /\ IsSome(summary)

\* C15: every request sent to the host goes to the ip and the port of the
\* audit entry found for the connection (read in host byte order: the first
\* octet of the address is the byte the entry holds first, the port is the
\* entry's u16 with its two bytes exchanged), whatever the request's URL
\* and headers are.
C15_DestinationFromAuditEntry ==
    \A i \in 1..Len(upstream) :
        /\ IsSome(entry)
        /\ entry = LookupEntry(audit, socket_audit)
        /\ LET e == Unwrap(entry)
           IN  /\ upstream[i].ip = e.destination_ipv4
               /\ upstream[i].port =
                      (e.destination_port % 256) * 256 + (e.destination_port \div 256)

\* C15 witness: a request was sent to the wire server's address, port 80,
\* which its audit entry holds in network byte order.
C15_Witness ==
    /\ Forwarded
    /\ Unwrap(entry).destination_port = PORT_80_BE
    /\ upstream[1].ip = <<168, 63, 129, 16>>
    /\ upstream[1].port = 80

MsgKeyEmpty == "current key is empty, skip computing the signature."

\* The request went through handle_request_with_signature up to the send
\* or to an error answer after the key was read.
PastSigning ==
    /\ pc \in {"upstream", "done"}
    /\ IsSome(request)
    /\ ~should_skip_sig(Unwrap(request).method, Unwrap(request).url)
    /\ "Received the client request body" \in log

\* C16: when the shared state holds no key, an authorized request that is
\* not whitelisted is still sent to the host: signing is skipped with a log
\* note, no authorization header is added (the request holds for that name
\* what the client sent, nothing in most cases) and no error is answered.  This
\* holds for the request that found no key value when it read it, and for
\* the step that finds no key guid.
C16_NoKeyStillForwarded ==
    /\ [](PastSigning /\ ~IsSome(key_value) =>
            /\ Len(upstream) = 1
            /\ AuthorizationHeader(upstream[1].request)
                  = AuthorizationHeader(Unwrap(request))
            /\ MsgKeyEmpty \in log
            /\ IsSome(response) => Status \notin {BAD_REQUEST, BAD_GATEWAY})
    /\ [][(pc = "key_guid" /\ ~IsSome(key) /\ pc' # "key_guid") =>
            /\ pc' = "upstream"
            /\ Len(upstream') = 1
            /\ AuthorizationHeader(upstream'[1].request)
                  = AuthorizationHeader(Unwrap(request))
            /\ MsgKeyEmpty \in log'
            /\ ~IsSome(response')]_vars

\* C16 witness: no key was present; the request was sent without an
\* authorization header and the host's answer was returned.
C16_Witness ==
    /\ Done
    /\ PastSigning
    /\ ~IsSome(key)
    /\ ~IsSome(key_value)
    /\ IsSome(authz)
    /\ Len(upstream) = 1
    /\ ~IsSome(AuthorizationHeader(upstream[1].request))
    /\ MsgKeyEmpty \in log
    /\ Status = OK

MsgSkipSig == "Skip compute signature"

\* handle_request passed the branch of lines 450-460 for the request.
PastSkipBranch == IsSome(request) /\ IsSome(proxy_request)

\* helpers::compute_signature was reached for the request.
SignatureComputed ==
    log \cap {"Added authorization header", "compute_signature failed",
              "Failed to add authorization header"} # {}

ProvisioningRequest ==
    IsSome(request) /\ Unwrap(request).url.path = PROVISION_URL_PATH.path

\* C19: a request for the provisioning-status path is answered locally: it
\* is never sent to the host, no audit entry is looked up and no rules are
\* evaluated for it; without a Metadata header the answer is 400 and the
\* key keeper is not notified, with it the answer is the provisioning state
\* as JSON, or 500.
C19_Original ==
    ProvisioningRequest =>
        /\ ~Forwarded
        /\ ~IsSome(entry)
        /\ ~IsSome(authz)
        /\ "Failed to get lookup_audit" \notin log
        /\ Done =>
              IF Unwrap(request).metadata
              THEN /\ Status \in {OK, INTERNAL_SERVER_ERROR}
                   /\ notified
                   /\ Status = OK => Unwrap(response).body = full_body(<<"json">>)
              ELSE /\ Status = BAD_REQUEST
                   /\ ~notified

(***************************************************************************)
(* Claims about the connection counter (checked under SpecConn)            *)
(***************************************************************************)

\* C12: whatever the interleaving of the tasks, no two of them are given
\* the same connection id (fewer than 2^128 ids are issued): a task adds to
\* the counter and reads it while it holds the lock, and no other task is
\* inside that section.
C12_UniqueConnectionIds ==
    /\ \A g, h \in DOMAIN handlers :
          (g # h /\ IsSome(handlers[g].id) /\ IsSome(handlers[h].id))
              => handlers[g].id # handlers[h].id
    /\ \A g, h \in DOMAIN handlers :
          (handlers[g].pc \in {"locked", "added"}
           /\ handlers[h].pc \in {"locked", "added"}) => g = h

\* C12 witness: every task has its id, the ids are pairwise distinct, and
\* one of the increments carried into the second limb.
C12_Witness ==
    /\ DOMAIN handlers # {}
    /\ \A h \in DOMAIN handlers : IsSome(handlers[h].id)
    /\ \A g, h \in DOMAIN handlers : g # h => handlers[g].id # handlers[h].id
    /\ \E h \in DOMAIN handlers : handlers[h].prev = Some(u128_from(LIMB - 1))

\* r is x + 1 modulo 2^128: the limbs below the lowest limb of x that is
\* not full are cleared, that limb is one more, the others are those of x;
\* when every limb of x is full, r is 0.
IsSuccessorMod(x, r) ==
    IF \A i \in 1..U128_LIMBS : x[i] = LIMB - 1
    THEN \A i \in 1..U128_LIMBS : r[i] = 0
    ELSE LET k == CHOOSE k \in 1..U128_LIMBS :
                      /\ x[k] # LIMB - 1
                      /\ \A i \in 1..(k - 1) : x[i] = LIMB - 1
         IN  \A i \in 1..U128_LIMBS :
                 r[i] = IF i < k THEN 0 ELSE IF i = k THEN x[k] + 1 ELSE x[i]

\* C13: increase_connection_count stores and returns the previous count
\* plus one modulo 2^128 (0 after u128::MAX), and once the lock is held it
\* cannot fail.
C13_WrappingIncrement ==
    \A h \in DOMAIN handlers :
        /\ handlers[h].pc = "locked" => ENABLED Add(h)
        /\ (handlers[h].pc = "added" /\ mutex = Some(h)) =>
              IsSuccessorMod(Unwrap(handlers[h].prev), connection_count)
        /\ IsSome(handlers[h].id) =>
              /\ IsSuccessorMod(Unwrap(handlers[h].prev), Unwrap(handlers[h].id))
              /\ handlers[h].prev = Some(U128_MAX) =>
                    handlers[h].id = Some(u128_from(0))

\* C13 witness: the count was u128::MAX and the call returned 0 and left 0
\* in the shared state.
C13_Witness ==
    \E h \in DOMAIN handlers :
        /\ handlers[h].prev = Some(U128_MAX)
        /\ handlers[h].id = Some(u128_from(0))
        /\ connection_count = u128_from(0)

(***************************************************************************)
(* Claims about ip_to_string and string_to_ip (checked under SpecIp)       *)
(***************************************************************************)

\* C20: string_to_ip(ip_to_string(x)) = x for every u32 x; ip_to_string
\* writes the least significant byte first: 0x10813FA8 (bytes A8, 3F, 81, 10
\* from the least significant) gives "168.63.129.16".
C20_IpRoundTrip ==
    /\ (IsSome(ipIn) /\ IsSome(ipOut)) => ipOut = ipIn
    /\ (ipIn = Some(<<168, 63, 129, 16>>) /\ IsSome(ipStr)) =>
          ipStr = Some(<<"1", "6", "8", ".", "6", "3", ".", "1", "2", "9", ".",
                         "1", "6">>)

\* C20 witness: 0x10813FA8 went through both functions and came back.
C20_Witness ==
    /\ ipIn = Some(<<168, 63, 129, 16>>)
    /\ ipStr = Some(<<"1", "6", "8", ".", "6", "3", ".", "1", "2", "9", ".",
                      "1", "6">>)
    /\ ipOut = ipIn

\* The number of dots of a string.
Dots(str) == Cardinality({i \in 1..Len(str) : str[i] = "."})

\* The characters of str between its k-th and (k+1)-th dot (k = 0: from the
\* start; after the last dot: to the end).
Segment(str, k) ==
    LET dots == {i \in 1..Len(str) : str[i] = "."}
        from == IF k = 0 THEN 0
                ELSE CHOOSE i \in dots : Cardinality({j \in dots : j < i}) = k - 1
        to == IF k = Cardinality(dots) THEN Len(str) + 1
              ELSE CHOOSE i \in dots : Cardinality({j \in dots : j < i}) = k
    IN  SubSeq(str, from + 1, to - 1)

IsDigit(c) == c \in {"0", "1", "2", "3", "4", "5", "6", "7", "8", "9"}

\* The characters of cs from its first one that is not "0".
RECURSIVE StripZeros(_)
StripZeros(cs) ==
    IF cs # <<>> /\ cs[1] = "0" THEN StripZeros(Tail(cs)) ELSE cs

\* seg is a decimal number in 0..255: digits (after an optional plus sign),
\* at least one, at most three after the leading zeros, and those not
\* above "255".
IsDecimalU8(seg) ==
    LET cs == IF seg # <<>> /\ seg[1] = "+" THEN Tail(seg) ELSE seg
        ds == StripZeros(cs)
    IN  /\ cs # <<>>
        /\ \A i \in 1..Len(cs) : IsDigit(cs[i])
        /\ Len(ds) <= 3
        /\ Len(ds) = 3 =>
              \/ ds[1] = "1"
              \/ ds[1] = "2" /\ ds[2] \in {"0", "1", "2", "3", "4"}
              \/ ds[1] = "2" /\ ds[2] = "5" /\ ds[3] \in {"0", "1", "2", "3", "4", "5"}

\* The number a segment that is a decimal number in 0..255 denotes.
DecimalValue(seg) ==
    LET cs == IF seg # <<>> /\ seg[1] = "+" THEN Tail(seg) ELSE seg
        ds == StripZeros(cs)
        d(i) == CHOOSE v \in 0..9 : Digits[v + 1] = ds[i]
    IN  CASE Len(ds) = 0 -> 0
          [] Len(ds) = 1 -> d(1)
          [] Len(ds) = 2 -> 10 * d(1) + d(2)
          [] OTHER -> 100 * d(1) + 10 * d(2) + d(3)

\* str is four dot-separated decimal numbers in 0..255.
WellFormedIp(str) ==
    /\ Dots(str) = 3
    /\ \A k \in 0..3 : IsDecimalU8(Segment(str, k))

\* C21: string_to_ip returns 0 for every string that is not four
\* dot-separated segments or has a segment that is no decimal number in
\* 0..255; for the other strings no sum or product left the u32 range: byte
\* k of the result is the number of segment k.
C21_MalformedGivesZero ==
    (IsSome(ipStr) /\ IsSome(ipOut)) =>
        IF WellFormedIp(Unwrap(ipStr))
        THEN \A k \in 0..3 :
                 Unwrap(ipOut)[k + 1] = DecimalValue(Segment(Unwrap(ipStr), k))
        ELSE ipOut = Some(U32(0))

\* C21 witness: "1270.0.0.1" was given and 0 was returned.
C21_Witness ==
    /\ ipStr = Some(<<"1", "2", "7", "0", ".", "0", ".", "0", ".", "1">>)
    /\ ~WellFormedIp(Unwrap(ipStr))
    /\ ipOut = Some(U32(0))

\* start_listener_with_retry has returned.
RetryReturned == IsSome(listener)

\* Every bind before the last one so far failed with AddrInUse, and a sleep
\* followed each of them.
OnlyAddrInUseRetried ==
    /\ \A n \in 1..(Len(bind_results) - 1) : bind_results[n] = "AddrInUse"
    /\ retry_i \in {Len(bind_results) - 1, Len(bind_results)}
    /\ (lpc \in {"bind", "last bind"}) => retry_i = Len(bind_results)

\* C22: start_listener_with_retry returns the listener of the first bind
\* that succeeds; it binds again only after AddrInUse and a sleep, 6 times
\* at most; it returns the error of a bind that failed otherwise, or of the
\* 6th bind; and it returns in the end.
C22_RetryOnlyAddrInUse ==
    /\ [](/\ Len(bind_results) <= START_LISTENER_RETRY_COUNT + 1
          /\ OnlyAddrInUseRetried
          /\ RetryReturned =>
                LET last == bind_results[Len(bind_results)]
                IN  IF last = "Ok"
                    THEN listener = Ok(Len(bind_results))
                    ELSE /\ listener = Err(Error_Io(last))
                         /\ last = "AddrInUse" =>
                                Len(bind_results) = START_LISTENER_RETRY_COUNT + 1
          /\ ~RetryReturned => lpc \in {"bind", "sleep", "last bind"})
    /\ <>RetryReturned

\* C22 witness: five binds failed with AddrInUse and the sixth gave the
\* listener that was returned.
C22_Witness ==
    /\ bind_results = <<"AddrInUse", "AddrInUse", "AddrInUse", "AddrInUse",
                        "AddrInUse", "Ok">>
    /\ listener = Ok(6)

\* C23: when start_listener_with_retry returned an error, start stores the
\* error's text as the status message of the proxy listener and returns; it
\* never reaches the accept loop, accepts no connection and spawns no task.
C23_BindFailureRecorded ==
    (RetryReturned /\ ~Unwrap(listener).ok) =>
        /\ lpc \in {"match", "returned"}
        /\ tasks = <<>>
        /\ accept_errors = 0
        /\ lpc = "returned" =>
              /\ proxy_listner_status_message = Error_to_string(Unwrap(listener).error)
              /\ proxy_listner_status_message # UNKNOWN_STATUS_MESSAGE

\* C23 witness: the sixth bind failed with AddrInUse and start returned.
C23_Witness ==
    /\ Len(bind_results) = START_LISTENER_RETRY_COUNT + 1
    /\ listener = Err(Error_Io("AddrInUse"))
    /\ lpc = "returned"
    /\ proxy_listner_status_message =
           "Failed to bind TcpListener '127.0.0.1:3080': AddrInUse"

\* C24 as stated: once the token is cancelled no connection is accepted, the
\* accept loop ends, and no task that ended is taken back or removed.
C24_Original ==
    /\ [][cancelled => Len(tasks') = Len(tasks)]_vars
    /\ [][\A t \in 1..Len(tasks) : tasks[t] # "running" => tasks'[t] = tasks[t]]_vars
    /\ (cancelled /\ lpc = "select") ~> (lpc = "returned")

\* The step is a call of the wrapper op.
Called(op) == IsSome(ret') /\ Unwrap(ret').op = op

\* The fields of SharedState other than the two rule ids.
fieldsButRuleIds ==
    <<key, connection_count, current_secure_channel_state, key_keeper_shutdown,
      key_keeper_status_message, proxy_listner_shutdown, proxy_listner_status_message>>

\* C25: update_wireserver_rule_id and update_imds_rule_id return
\* (changed, previous), where previous is the id stored before the call and
\* changed says that it differs from the id given; afterwards the id given
\* is stored and no other field of the shared state has changed.
C25_RuleIdUpdate ==
    [][/\ Called("update_wireserver_rule_id") =>
            /\ Unwrap(ret').result =
                   <<wireserver_rule_id # Unwrap(ret').arg, wireserver_rule_id>>
            /\ wireserver_rule_id' = Unwrap(ret').arg
            /\ UNCHANGED <<imds_rule_id, fieldsButRuleIds>>
       /\ Called("update_imds_rule_id") =>
            /\ Unwrap(ret').result = <<imds_rule_id # Unwrap(ret').arg, imds_rule_id>>
            /\ imds_rule_id' = Unwrap(ret').arg
            /\ UNCHANGED <<wireserver_rule_id, fieldsButRuleIds>>]_vars

\* C25 witness: "r1" was stored and update_wireserver_rule_id("r2")
\* returned (true, "r1").
C25_Witness ==
    /\ IsSome(ret)
    /\ Unwrap(ret).op = "update_wireserver_rule_id"
    /\ Unwrap(ret).arg = "r2"
    /\ Unwrap(ret).result = <<TRUE, "r1">>
    /\ wireserver_rule_id = "r2"
    /\ imds_rule_id = "r1"

\* C26 as stated: update_current_secure_channel_state returns
\* (changed, previous state).
C26_Original ==
    [][Called("update_current_secure_channel_state") =>
          /\ Unwrap(ret').result =
                 <<current_secure_channel_state # Unwrap(ret').arg,
                   current_secure_channel_state>>
          /\ current_secure_channel_state' = Unwrap(ret').arg]_vars

\* C26: update_current_secure_channel_state returns one bool, which is true
\* exactly when the state given differs from the stored one; afterwards the
\* state given is stored and no other field has changed.
C26_ChannelStateUpdate ==
    [][Called("update_current_secure_channel_state") =>
          /\ Unwrap(ret').result = <<current_secure_channel_state # Unwrap(ret').arg>>
          /\ current_secure_channel_state' = Unwrap(ret').arg
          /\ UNCHANGED <<key, connection_count, wireserver_rule_id, imds_rule_id,
                         key_keeper_shutdown, key_keeper_status_message,
                         proxy_listner_shutdown, proxy_listner_status_message>>]_vars

\* C26 witness: the state given was the stored one and false was returned.
C26_Witness ==
    /\ IsSome(ret)
    /\ Unwrap(ret).op = "update_current_secure_channel_state"
    /\ Unwrap(ret).arg = "WireServer"
    /\ Unwrap(ret).result = <<FALSE>>
    /\ current_secure_channel_state = "WireServer"

\* C27 as stated: what get_status_message of the key keeper and get_status
\* of the proxy listener return as the message has at most 1024 characters.
C27_Original ==
    IsSome(ret) =>
        /\ Unwrap(ret).op = "key_keeper_wrapper::get_status_message" =>
               Len(Unwrap(ret).result[1]) <= 1024
        /\ Unwrap(ret).op = "proxy_server::get_status" =>
               Len(Unwrap(ret).result[1].message) <= 1024

\* C28 as stated: whenever handle_request found an audit entry,
\* Claims::from_audit_entry returned claims (sentinel values where the
\* identity could not be resolved) with userId = entry.logon_id,
\* runAsElevated = (entry.is_admin = 1) and clientIp the peer address.
C28_Original ==
    (pc # "handle" /\ IsSome(entry)) =>
        /\ IsSome(from_audit_entry(Unwrap(entry), Unwrap(connection).client_ip))
        /\ IsSome(Unwrap(connection).claims)
        /\ LET claims == Unwrap(Unwrap(connection).claims)
           IN  /\ claims.userId = Unwrap(entry).logon_id
               /\ claims.runAsElevated = (Unwrap(entry).is_admin = 1)
               /\ claims.clientIp = Unwrap(connection).client_ip

\* C29 as stated: a call whose lookup of the logon id found nothing stores
\* no entry in the cache.
C29_Original ==
    [][\A c \in Callers :
          (callers[c].pc # "done" /\ callers'[c].pc = "done"
               /\ callers'[c].looked /\ ~IsSome(callers'[c].found))
              => users' = users]_vars

\* C30 as stated: a call that begins after a call for the same logon id
\* returned a User returns that same User and leaves the number of cached
\* users as it found it; the cache never holds two entries of one logon id.
C30_Original ==
    /\ [](\A m, n \in 1..Len(users) : users[m].logon_id = users[n].logon_id => m = n)
    /\ [](\A c \in Callers : \A d \in callers[c].after :
             (callers[c].pc = "done" /\ callers[d].logon_id = callers[c].logon_id) =>
                 callers[c].result = callers[d].result)
    /\ [][\A c \in Callers : \A d \in callers'[c].after :
             (callers'[c] # callers[c] /\ callers[d].logon_id = callers[c].logon_id) =>
                 ProxyServerSharedState_get_users_count(users')
                     = ProxyServerSharedState_get_users_count(users)]_vars

\* The elements of a sequence.
Range(seq) == {seq[n] : n \in 1..Len(seq)}

\* What an optional list defines: nothing when it is absent.
Defined(list) == IF IsSome(list) THEN Range(Unwrap(list)) ELSE {}

\* C31: from_authorization_item returns for every item; when the item has
\* role assignments there is one Rule per assignment, in order, named after
\* the assignment's role; its privileges are the defined privileges whose
\* name some role of that name lists, its identities the defined identities
\* whose name the assignment lists; a name that is not defined adds nothing.
C31_RulesFromDefinedNames ==
    (IsSome(itemIn) /\ IsSome(itemOut)) =>
        LET item == Unwrap(itemIn)
            out == Unwrap(itemOut)
            acr == Unwrap(item.rules)
        IN  IF ~IsSome(item.rules) \/ ~IsSome(acr.roleAssignments)
            THEN out.rules = None
            ELSE LET assignments == Unwrap(acr.roleAssignments)
                     rules == Unwrap(out.rules)
                 IN  /\ IsSome(out.rules)
                     /\ Len(rules) = Len(assignments)
                     /\ \A k \in 1..Len(assignments) :
                           /\ rules[k].roleName = assignments[k].role
                           /\ Range(rules[k].privileges) =
                                  {p \in Defined(acr.privileges) :
                                      \E role \in Defined(acr.roles) :
                                          /\ role.name = assignments[k].role
                                          /\ p.name \in Range(role.privileges)}
                           /\ Range(rules[k].identities) =
                                  {i \in Defined(acr.identities) :
                                      i.name \in Range(assignments[k].identities)}

\* C31 witness: three assignments, the second of a role that is not
\* defined, gave three rules, the second without privileges.
C31_Witness ==
    /\ IsSome(itemOut)
    /\ IsSome(Unwrap(itemOut).rules)
    /\ Len(Unwrap(Unwrap(itemOut).rules)) = 3
    /\ Unwrap(Unwrap(itemOut).rules)[2] =
           [roleName |-> "missing", privileges |-> <<>>, identities |-> <<IdUser>>]
    /\ Unwrap(Unwrap(itemOut).rules)[3].privileges = <<PrivOQ, PrivT, PrivT2>>

\* C32: the mode of the compiled rules is the item's mode in lower case, and
\* defaultAllowed is true exactly when defaultAccess is "allow" in some
\* casing.
C32_LowercaseModeAndDefault ==
    (IsSome(itemIn) /\ IsSome(itemOut)) =>
        /\ Unwrap(itemOut).mode \in {"enforce", "audit", "disabled"}
        /\ Unwrap(itemIn).mode \in
               CASE Unwrap(itemOut).mode = "enforce" -> {"enforce", "Enforce"}
                 [] Unwrap(itemOut).mode = "audit" -> {"AUDIT"}
                 [] OTHER -> {"Disabled"}
        /\ Unwrap(itemOut).defaultAllowed =
               (Unwrap(itemIn).defaultAccess \in {"allow", "Allow", "ALLOW"})

\* C32 witness: defaultAccess "ALLOW" and mode "AUDIT" gave defaultAllowed
\* and the mode "audit".
C32_Witness ==
    /\ IsSome(itemOut)
    /\ Unwrap(itemIn).defaultAccess = "ALLOW"
    /\ Unwrap(itemIn).mode = "AUDIT"
    /\ Unwrap(itemOut).defaultAllowed
    /\ Unwrap(itemOut).mode = "audit"

\* The agent signed the request and sent it to the host.
SignedForward ==
    /\ "Added authorization header" \in log
    /\ Len(upstream) = 1
    /\ IsSome(AuthorizationHeader(upstream[1].request))

\* The one value a HeaderMap holds for the name is v.
HoldsOnly(headers, name, v) == HeaderValues(headers, name) = <<v>>

\* C33: on every signed request the claims header and the date header are
\* inserted before the signature is computed: the request that waits for
\* its body and for the key holds one value of each, both are in the
\* canonical input the signature is computed from, and the request sent to
\* the host holds the same two values that were signed.
C33_SignedHeadersForwarded ==
    /\ pc \in {"collect", "key_value", "key_guid"} =>
          /\ HoldsOnly(Unwrap(proxy_request).headers, CLAIMS_HEADER,
                       host_claims(Unwrap(authz).claims))
          /\ HoldsOnly(Unwrap(proxy_request).headers, DATE_HEADER, "date")
    /\ SignedForward =>
          LET fwd == upstream[1].request
              input == Unwrap(AuthorizationHeader(fwd))[3].input
          IN  /\ HoldsOnly(input.headers, CLAIMS_HEADER,
                           host_claims(Unwrap(authz).claims))
              /\ HoldsOnly(input.headers, DATE_HEADER, "date")
              /\ HeaderValues(fwd.headers, CLAIMS_HEADER)
                    = HeaderValues(input.headers, CLAIMS_HEADER)
              /\ HeaderValues(fwd.headers, DATE_HEADER)
                    = HeaderValues(input.headers, DATE_HEADER)

\* C33 witness: a request was signed and sent, and the host's answer was
\* returned to the client.
C33_Witness ==
    /\ Done
    /\ SignedForward
    /\ Status = OK
    /\ Unwrap(AuthorizationHeader(upstream[1].request))[3].input.method = "POST"

\* C37: on every signed request the key guid written in the authorization
\* header and the key bytes the digest is computed with belong to one Key
\* value, also when set_key or clear_key runs while the request is handled.
\* The handler reads the key value and the key guid in two calls, each of
\* which takes the lock for itself, so a set_key between them pairs the
\* bytes of one key with the guid of another.
C37_Original ==
    SignedForward =>
        LET value == Unwrap(AuthorizationHeader(upstream[1].request))
        IN  \E k \in Keys : value[2] = k.guid /\ value[3].key = k.key

\* C35: no failure while accepting or serving a connection ends the accept
\* loop: a failed accept and a failed connection leave start in its loop,
\* and start leaves the loop only by the branch of the cancelled token.
C35_FailuresKeepLoop ==
    /\ [][accept_errors' # accept_errors => lpc = "select" /\ lpc' = "select"]_vars
    /\ [][(\E t \in 1..Len(tasks) : tasks[t] = "running" /\ tasks'[t] = "failed")
            => lpc' = lpc /\ cancelled' = cancelled]_vars
    /\ [][(lpc = "select" /\ lpc' # "select") => cancelled /\ lpc' = "returned"]_vars

\* C35 witness: an accept failed and a connection failed, and start, not
\* cancelled, is in its loop with a connection accepted since.
C35_Witness ==
    /\ lpc = "select"
    /\ ~cancelled
    /\ accept_errors = 1
    /\ tasks = <<"failed", "running">>

\* C36 as stated: after proxy_server::stop get_status reports STOPPED and
\* the accept loop accepts no further connection.  stop sets the shutdown
\* flag of the proxy listener and nothing else; start waits for the
\* cancellation token and never reads the flag.
C36_Original ==
    /\ [](proxy_listner_shutdown =>
            get_status(proxy_listner_shutdown, proxy_listner_status_message).status
                = "STOPPED")
    /\ [][proxy_listner_shutdown => Len(tasks') = Len(tasks)]_vars

\* The task is in a call that has not returned.
InCall(t) == workers[t].pc \notin {"idle", "returned"}

\* The task can take a step.
CanStep(t) ==
    \/ workers[t].pc \in {"get_bpf_object", "locked", "cloned"}
    \/ workers[t].pc = "lock" /\ locks[MutexOf(workers[t].op, t)] = None

\* C34: no task ever holds two mutexes at once; a call takes its mutex and
\* releases it before it returns, so a task that is in no call holds none
\* and a mutex is held only by a task past its lock() that needs nothing
\* more to release it; whenever a call has not returned some task can take
\* a step: no interleaving of the calls deadlocks.
C34_OneMutexNoDeadlock ==
    /\ \A t \in Tasks :
          /\ Cardinality(Held(t)) <= 1
          /\ ~InCall(t) => Held(t) = {}
          /\ workers[t].pc \in {"get_bpf_object", "lock"} => Held(t) = {}
          /\ workers[t].pc \in {"locked", "cloned"}
                => Held(t) = {MutexOf(workers[t].op, t)}
    /\ (\E t \in Tasks : InCall(t)) => (\E t \in Tasks : CanStep(t))

\* C34 witness: one task holds the mutex of the shared state in the middle
\* of update_wireserver_rule_id, a second one waits for it, and the third
\* holds the mutex of the BPF object.
C34_Witness ==
    /\ workers[1].pc = "cloned" /\ workers[1].op = "update_wireserver_rule_id"
    /\ workers[2].pc = "lock" /\ workers[2].op = "set_key"
    /\ workers[3].pc = "locked" /\ workers[3].op = "lookup_audit"
    /\ locks[SHARED_STATE] = Some(1)
    /\ locks[BPF_OBJECT] = Some(3)

UpdateCalls == {"update_wireserver_rule_id", "update_imds_rule_id"}

StoredRuleId(op) ==
    IF op = "update_wireserver_rule_id" THEN wireserver_rule_id ELSE imds_rule_id

\* The tasks whose call is op.
CallersOf(op) == {t \in Tasks : workers[t].op = op}

\* Every call made so far is a call of op with the new id, by a task of its
\* own, and all of them have returned.
SameIdBatch(op, rule_id) ==
    /\ Cardinality(CallersOf(op)) >= 2
    /\ calls = Cardinality(CallersOf(op))
    /\ \A t \in CallersOf(op) :
          workers[t].arg = rule_id /\ workers[t].pc = "returned"

\* C40: when several callers call update_wireserver_rule_id (or
\* update_imds_rule_id) concurrently with the same new id, which differs
\* from the stored one (the empty id of a new shared state), exactly one of
\* them gets changed = true, with the id stored before; every other caller
\* gets changed = false with previous equal to the new id.  The id a call
\* compares is the stored one: no other call writes between its clone and
\* its assignment.
C40_ExactlyOneChanged ==
    /\ \A t \in Tasks :
          workers[t].pc = "cloned"
             => Unwrap(workers[t].old) = StoredRuleId(workers[t].op)
    /\ \A op \in UpdateCalls : \A rule_id \in RuleIds \ {""} :
          SameIdBatch(op, rule_id) =>
             /\ Cardinality({t \in CallersOf(op) :
                                Unwrap(workers[t].result) = <<TRUE, "">>}) = 1
             /\ \A t \in CallersOf(op) :
                   Unwrap(workers[t].result) \in {<<TRUE, "">>, <<FALSE, rule_id>>}
             /\ StoredRuleId(op) = rule_id

\* C40 witness: three tasks called update_wireserver_rule_id("r1") at the
\* same time; the second got changed = true.
C40_Witness ==
    /\ CallersOf("update_wireserver_rule_id") = Tasks
    /\ SameIdBatch("update_wireserver_rule_id", "r1")
    /\ Unwrap(workers[1].result) = <<FALSE, "r1">>
    /\ Unwrap(workers[2].result) = <<TRUE, "">>
    /\ Unwrap(workers[3].result) = <<FALSE, "r1">>

\* The client sent a header of the name with its request.
ClientSent(name) ==
    IsSome(request) /\ HeaderValues(Unwrap(request).headers, name) # <<>>

\* C38: the claims header of every request sent to the host is the one the
\* agent built from the audit entry of the connection, runAsElevated being
\* is_admin = 1; it is the only value of that name, a claims header sent by
\* the client is replaced.  The value depends on the audit entry alone, so
\* two requests that differ in the client's claims header only are sent on
\* with the same claims header.
C38_ClaimsHeaderFromAuditEntry ==
    \A i \in 1..Len(upstream) :
        /\ IsSome(entry)
        /\ HoldsOnly(upstream[i].request.headers, CLAIMS_HEADER,
                     <<CLAIMS_IS_ROOT, Unwrap(entry).is_admin = 1>>)

\* C38 witness: a client that is not elevated sent a claims header saying
\* that it is; the request was sent on, whitelisted or signed, with the
\* agent's claims header saying that it is not.
C38_Witness ==
    /\ Done
    /\ Forwarded
    /\ ClientSent(CLAIMS_HEADER)
    /\ HeaderValues(Unwrap(request).headers, CLAIMS_HEADER) = <<<<CLAIMS_IS_ROOT, TRUE>>>>
    /\ Unwrap(entry).is_admin = 0
    /\ HeaderValues(upstream[1].request.headers, CLAIMS_HEADER)
          = <<<<CLAIMS_IS_ROOT, FALSE>>>>
    /\ Status = OK

\* C39 as stated: a request sent to the host holds an authorization header
\* only if the agent computed it for that request; when signing is skipped
\* (whitelisted path, no key, failed computation) no header of that name
\* reaches the host.  No step of the handlers removes a header: the
\* authorization header a client sent stays on the request.
C39_Original ==
    \A i \in 1..Len(upstream) :
        AuthorizationHeader(upstream[i].request) # <<>>
            => "Added authorization header" \in log

====
